---- MODULE Spec2Model ----
(***************************************************************************)
(* Verification model of the beltraide-dashboard filter engine             *)
(* (src/data/coops.ts and its buyer-country variant) and of the App        *)
(* compositions that drive it.                                             *)
(*                                                                         *)
(* JavaScript strings are modelled as sequences of one-character strings,  *)
(* so that toLowerCase, join and includes are computed, not assumed.       *)
(* JavaScript objects are functions from property names to values; a       *)
(* property that is absent reads as Undefined.                             *)
(***************************************************************************)
EXTENDS Integers, Sequences, FiniteSets, TLC

VARIABLES
  coops,        \* the record list handed to filterCoops (COOPS / BASE / any list)
  filters,      \* the Filter Specification (useState<CoopFilters>)
  panelFilters, \* the `filters` prop the FiltersPanel got at the last render
  filtered,     \* filterCoops(coops, filters) as of the last render (useMemo)
  selectedId,   \* useState<string | undefined>
  showSnapshot, \* useState<boolean> of the first App.tsx composition
  app,          \* which App composition runs ("none": the engine on its own)
  engine,       \* which filterCoops is linked: "coops.ts" or "part_000"
  csv,          \* the text of the Blob exportCSV last built (<<>>: none yet)
  lastFocus,    \* useState of the EcosystemGraph that remembers the last clicked node
  label         \* the last call of truncateToWidth: its arguments and its result

vars == <<coops, filters, panelFilters, filtered, selectedId, showSnapshot, app, engine, csv, lastFocus, label>>

(***************************************************************************)
(* JavaScript values                                                       *)
(***************************************************************************)
\* the value `undefined`; a one-element sequence that is no string of characters
Undefined == <<"undefined">>

\* property read o.k : an absent property reads as undefined
Get(o, k) == IF k \in DOMAIN o THEN o[k] ELSE Undefined

\* object spread { ...o, k: v }
Put(o, k, v) == [x \in DOMAIN o \cup {k} |-> IF x = k THEN v ELSE o[x]]

\* truthiness of a string-or-undefined value: "" and undefined are falsy
Truthy(v) == v # Undefined /\ v # <<>>

\* lastFocus before any click and after the graph's Reset: null and { type: null },
\* both read through lastFocus?.type only
NoFocus == [type |-> "null"]

\* no label drawn yet
NoLabel == [text |-> <<>>, maxW |-> 0, em |-> 0, shown |-> <<>>]

UPPER ==
  <<"A","B","C","D","E","F","G","H","I","J","K","L","M",
    "N","O","P","Q","R","S","T","U","V","W","X","Y","Z">>
LOWER ==
  <<"a","b","c","d","e","f","g","h","i","j","k","l","m",
    "n","o","p","q","r","s","t","u","v","w","x","y","z">>

\* the case mapping of the letters A..Z
LowerMap ==
  [ch \in {UPPER[i] : i \in 1..26} |-> LOWER[CHOOSE i \in 1..26 : UPPER[i] = ch]]

\* String.prototype.toLowerCase on one character
LowerChar(ch) == IF ch \in DOMAIN LowerMap THEN LowerMap[ch] ELSE ch

\* String.prototype.toLowerCase
toLowerCase(s) == [i \in 1..Len(s) |-> LowerChar(s[i])]

\* Array.prototype.join(sep)
RECURSIVE join(_, _)
join(parts, sep) ==
  IF Len(parts) = 0 THEN <<>>
  ELSE IF Len(parts) = 1 THEN parts[1]
  ELSE parts[1] \o sep \o join(Tail(parts), sep)

\* String.prototype.includes : contiguous substring
includes(txt, q) ==
  \E i \in 0..(Len(txt) - Len(q)) : \A j \in 1..Len(q) : txt[i + j] = q[j]

\* the elements of an array
Elems(l) == {l[i] : i \in 1..Len(l)}

\* Array.prototype.includes : membership in a list
arrIncludes(arr, v) == \E i \in 1..Len(arr) : arr[i] = v

(***************************************************************************)
(* Catalog vocabulary and sample data (src/data/coops.ts)                  *)
(***************************************************************************)
\* DISTRICTS = ["Belize", "Cayo", "Corozal", "Orange Walk", "Stann Creek", "Toledo"]
DISTRICTS ==
  << <<"B","e","l","i","z","e">>,
     <<"C","a","y","o">>,
     <<"C","o","r","o","z","a","l">>,
     <<"O","r","a","n","g","e"," ","W","a","l","k">>,
     <<"S","t","a","n","n"," ","C","r","e","e","k">>,
     <<"T","o","l","e","d","o">> >>

\* SECTORS = ["Seaweed", "Aquaculture", "Eco-tourism", "Cacao", "Honey", "Fisheries"]
SECTORS ==
  << <<"S","e","a","w","e","e","d">>,
     <<"A","q","u","a","c","u","l","t","u","r","e">>,
     <<"E","c","o","-","t","o","u","r","i","s","m">>,
     <<"C","a","c","a","o">>,
     <<"H","o","n","e","y">>,
     <<"F","i","s","h","e","r","i","e","s">> >>

\* BLUE_SECTORS = ["Seaweed", "Aquaculture", "Eco-tourism", "Fisheries"]
BLUE_SECTORS ==
  << <<"S","e","a","w","e","e","d">>,
     <<"A","q","u","a","c","u","l","t","u","r","e">>,
     <<"E","c","o","-","t","o","u","r","i","s","m">>,
     <<"F","i","s","h","e","r","i","e","s">> >>

\* VALUE_CHAIN = ["Producer", "Processor", "Exporter"]
VALUE_CHAIN ==
  << <<"P","r","o","d","u","c","e","r">>,
     <<"P","r","o","c","e","s","s","o","r">>,
     <<"E","x","p","o","r","t","e","r">> >>

\* FDI_PRIORITIES = ["Blue Economy", "Sustainable Tourism", "Agribusiness & Fisheries", "BPO/ICT", "Renewable Energy"]
FDI_PRIORITIES ==
  << <<"B","l","u","e"," ","E","c","o","n","o","m","y">>,
     <<"S","u","s","t","a","i","n","a","b","l","e"," ","T","o","u","r","i","s","m">>,
     <<"A","g","r","i","b","u","s","i","n","e","s","s"," ","&"," ","F","i","s","h","e","r","i","e","s">>,
     <<"B","P","O","/","I","C","T">>,
     <<"R","e","n","e","w","a","b","l","e"," ","E","n","e","r","g","y">> >>

\* CERTS = ["Organic", "Fair Trade", "HACCP", "ISO 22000", "MSC"]
CERTS ==
  << <<"O","r","g","a","n","i","c">>,
     <<"F","a","i","r"," ","T","r","a","d","e">>,
     <<"H","A","C","C","P">>,
     <<"I","S","O"," ","2","2","0","0","0">>,
     <<"M","S","C">> >>

\* ESG_TAGS = ["Climate", "Biodiversity", "Community", "Youth", "Gender"]
ESG_TAGS ==
  << <<"C","l","i","m","a","t","e">>,
     <<"B","i","o","d","i","v","e","r","s","i","t","y">>,
     <<"C","o","m","m","u","n","i","t","y">>,
     <<"Y","o","u","t","h">>,
     <<"G","e","n","d","e","r">> >>

\* COOPS entry "co1" (Sea Bloom)
co1 ==
  [ id |-> <<"c","o","1">>,
    cooperativeName |-> <<"S","e","a"," ","B","l","o","o","m">>,
    officialName |-> <<"S","e","a"," ","B","l","o","o","m"," ","C","o","o","p","e","r","a","t","i","v","e">>,
    district |-> <<"S","t","a","n","n"," ","C","r","e","e","k">>,
    gps |-> <<"1","6",".","9","0",",","-","8","8",".","2","0">>,
    sector |-> <<"S","e","a","w","e","e","d">>,
    valueChain |-> <<"P","r","o","d","u","c","e","r">>,
    buyer |-> <<"B","e","l","i","z","e"," ","S","e","a"," ","C","o",".">>,
    members |-> 45,
    capacity |-> 12,
    capacityUnit |-> <<"t","o","n","s">>,
    product |-> <<"R","a","w"," ","s","e","a","w","e","e","d">>,
    certifications |-> <<<<"O","r","g","a","n","i","c">>>>,
    exportHistory |-> <<<<"L","o","c","a","l">>>>,
    fdiPriority |-> <<"B","l","u","e"," ","E","c","o","n","o","m","y">>,
    esg |-> <<<<"C","l","i","m","a","t","e">>, <<"C","o","m","m","u","n","i","t","y">>>>,
    partners |-> <<<<"N","G","O"," ","A">>>>,
    contact |-> <<"l","e","a","d","@","s","e","a","b","l","o","o","m",".","b","z"," ","|"," ","+","5","0","1"," ","5","5","5","-","1","0","0","1">> ]

\* COOPS entry "co2" (Coral Care)
co2 ==
  [ id |-> <<"c","o","2">>,
    cooperativeName |-> <<"C","o","r","a","l"," ","C","a","r","e">>,
    officialName |-> <<"C","o","r","a","l"," ","C","a","r","e"," ","M","a","r","i","n","e"," ","C","o","o","p","e","r","a","t","i","v","e">>,
    district |-> <<"T","o","l","e","d","o">>,
    gps |-> <<"1","6",".","2","0",",","-","8","8",".","8","1">>,
    sector |-> <<"A","q","u","a","c","u","l","t","u","r","e">>,
    valueChain |-> <<"P","r","o","c","e","s","s","o","r">>,
    buyer |-> <<"B","l","u","e"," ","F","o","o","d","s"," ","L","t","d",".">>,
    members |-> 60,
    capacity |-> 6000,
    capacityUnit |-> <<"k","g">>,
    product |-> <<"S","e","a"," ","c","u","c","u","m","b","e","r"," ","(","s","e","m","i","-","p","r","o","c","e","s","s","e","d",")">>,
    certifications |-> <<<<"H","A","C","C","P">>>>,
    exportHistory |-> <<<<"R","e","g","i","o","n","a","l">>>>,
    fdiPriority |-> <<"A","g","r","i","b","u","s","i","n","e","s","s"," ","&"," ","F","i","s","h","e","r","i","e","s">>,
    esg |-> <<<<"B","i","o","d","i","v","e","r","s","i","t","y">>, <<"C","o","m","m","u","n","i","t","y">>>>,
    partners |-> <<<<"D","o","n","o","r"," ","X">>, <<"T","e","c","h"," ","A","s","s","i","s","t"," ","Y">>>>,
    contact |-> <<"i","n","f","o","@","c","o","r","a","l","c","a","r","e",".","o","r","g"," ","|"," ","+","5","0","1"," ","5","5","5","-","1","0","0","2">> ]

\* COOPS entry "co3" (Maya Cacao)
co3 ==
  [ id |-> <<"c","o","3">>,
    cooperativeName |-> <<"M","a","y","a"," ","C","a","c","a","o">>,
    officialName |-> <<"M","a","y","a"," ","M","o","u","n","t","a","i","n"," ","C","a","c","a","o"," ","C","o","o","p","e","r","a","t","i","v","e">>,
    district |-> <<"T","o","l","e","d","o">>,
    gps |-> <<"1","6",".","2","7",",","-","8","8",".","7","8">>,
    sector |-> <<"C","a","c","a","o">>,
    valueChain |-> <<"P","r","o","d","u","c","e","r">>,
    buyer |-> <<"C","h","o","c","o","B","e","l"," ","E","x","p","o","r","t","e","r","s">>,
    members |-> 120,
    capacity |-> 90,
    capacityUnit |-> <<"t","o","n","s">>,
    product |-> <<"F","e","r","m","e","n","t","e","d"," ","c","a","c","a","o"," ","b","e","a","n","s">>,
    certifications |-> <<<<"O","r","g","a","n","i","c">>, <<"F","a","i","r"," ","T","r","a","d","e">>>>,
    exportHistory |-> <<<<"I","n","t","e","r","n","a","t","i","o","n","a","l">>>>,
    fdiPriority |-> <<"A","g","r","i","b","u","s","i","n","e","s","s"," ","&"," ","F","i","s","h","e","r","i","e","s">>,
    esg |-> <<<<"B","i","o","d","i","v","e","r","s","i","t","y">>, <<"C","o","m","m","u","n","i","t","y">>, <<"Y","o","u","t","h">>>>,
    partners |-> <<<<"N","G","O"," ","C">>, <<"D","o","n","o","r"," ","Z">>>>,
    contact |-> <<"m","a","y","a",".","c","a","c","a","o","@","c","o","o","p",".","b","z"," ","|"," ","+","5","0","1"," ","5","5","5","-","1","0","0","3">> ]

\* COOPS entry "co4" (Belize HoneyWorks)
co4 ==
  [ id |-> <<"c","o","4">>,
    cooperativeName |-> <<"B","e","l","i","z","e"," ","H","o","n","e","y","W","o","r","k","s">>,
    officialName |-> <<"B","e","l","i","z","e"," ","H","o","n","e","y","W","o","r","k","s"," ","C","o","o","p","e","r","a","t","i","v","e">>,
    district |-> <<"C","a","y","o">>,
    gps |-> <<"1","7",".","0","9",",","-","8","9",".","0","6">>,
    sector |-> <<"H","o","n","e","y">>,
    valueChain |-> <<"P","r","o","c","e","s","s","o","r">>,
    buyer |-> <<"S","w","e","e","t","B","e","l"," ","I","m","p","o","r","t","s">>,
    members |-> 80,
    capacity |-> 40,
    capacityUnit |-> <<"t","o","n","s">>,
    product |-> <<"F","i","l","t","e","r","e","d"," ","h","o","n","e","y"," ","|"," ","v","a","l","u","e","-","a","d","d","e","d">>,
    certifications |-> <<<<"O","r","g","a","n","i","c">>, <<"I","S","O"," ","2","2","0","0","0">>>>,
    exportHistory |-> <<<<"R","e","g","i","o","n","a","l">>, <<"I","n","t","e","r","n","a","t","i","o","n","a","l">>>>,
    fdiPriority |-> <<"A","g","r","i","b","u","s","i","n","e","s","s"," ","&"," ","F","i","s","h","e","r","i","e","s">>,
    esg |-> <<<<"B","i","o","d","i","v","e","r","s","i","t","y">>, <<"C","o","m","m","u","n","i","t","y">>, <<"G","e","n","d","e","r">>>>,
    partners |-> <<<<"N","G","O"," ","B","e","e","L","a","b">>>>,
    contact |-> <<"h","e","l","l","o","@","h","o","n","e","y","w","o","r","k","s",".","b","z"," ","|"," ","+","5","0","1"," ","5","5","5","-","1","0","0","4">> ]

\* COOPS entry "co5" (Barrier Reef Tours)
co5 ==
  [ id |-> <<"c","o","5">>,
    cooperativeName |-> <<"B","a","r","r","i","e","r"," ","R","e","e","f"," ","T","o","u","r","s">>,
    officialName |-> <<"B","a","r","r","i","e","r"," ","R","e","e","f"," ","E","c","o","-","T","o","u","r","i","s","m"," ","C","o","o","p","e","r","a","t","i","v","e">>,
    district |-> <<"B","e","l","i","z","e">>,
    gps |-> <<"1","7",".","5","0",",","-","8","8",".","1","9">>,
    sector |-> <<"E","c","o","-","t","o","u","r","i","s","m">>,
    valueChain |-> <<"E","x","p","o","r","t","e","r">>,
    buyer |-> <<"G","l","o","b","a","l"," ","T","r","a","v","e","l"," ","P","a","r","t","n","e","r","s">>,
    members |-> 55,
    capacity |-> 15000,
    capacityUnit |-> <<"u","n","i","t","s">>,
    product |-> <<"E","c","o","-","t","o","u","r"," ","p","a","c","k","a","g","e","s">>,
    certifications |-> <<<<"I","S","O"," ","2","2","0","0","0">>>>,
    exportHistory |-> <<<<"I","n","t","e","r","n","a","t","i","o","n","a","l">>>>,
    fdiPriority |-> <<"S","u","s","t","a","i","n","a","b","l","e"," ","T","o","u","r","i","s","m">>,
    esg |-> <<<<"C","l","i","m","a","t","e">>, <<"C","o","m","m","u","n","i","t","y">>>>,
    partners |-> <<<<"T","o","u","r","i","s","m"," ","B","o","a","r","d">>, <<"D","o","n","o","r"," ","Q">>>>,
    contact |-> <<"o","p","s","@","b","r","t",".","b","z"," ","|"," ","+","5","0","1"," ","5","5","5","-","1","0","0","5">> ]

\* COOPS entry "co6" (Lagoon Fishers)
co6 ==
  [ id |-> <<"c","o","6">>,
    cooperativeName |-> <<"L","a","g","o","o","n"," ","F","i","s","h","e","r","s">>,
    officialName |-> <<"L","a","g","o","o","n"," ","F","i","s","h","e","r","s"," ","C","o","o","p","e","r","a","t","i","v","e">>,
    district |-> <<"C","o","r","o","z","a","l">>,
    gps |-> <<"1","8",".","4","0",",","-","8","8",".","3","9">>,
    sector |-> <<"F","i","s","h","e","r","i","e","s">>,
    valueChain |-> <<"P","r","o","d","u","c","e","r">>,
    buyer |-> <<"B","e","l","S","e","a"," ","E","x","p","o","r","t">>,
    members |-> 200,
    capacity |-> 180,
    capacityUnit |-> <<"t","o","n","s">>,
    product |-> <<"F","i","n"," ","f","i","s","h"," ","(","r","a","w",")">>,
    certifications |-> <<<<"M","S","C">>>>,
    exportHistory |-> <<<<"L","o","c","a","l">>, <<"R","e","g","i","o","n","a","l">>>>,
    fdiPriority |-> <<"B","l","u","e"," ","E","c","o","n","o","m","y">>,
    esg |-> <<<<"C","l","i","m","a","t","e">>, <<"C","o","m","m","u","n","i","t","y">>>>,
    partners |-> <<<<"N","G","O"," ","F","i","s","h","A","i","d">>, <<"D","o","n","o","r"," ","N","e","t">>>>,
    contact |-> <<"b","o","a","r","d","@","l","a","g","o","o","n","f","i","s","h","e","r","s",".","c","o","o","p"," ","|"," ","+","5","0","1"," ","5","5","5","-","1","0","0","6">> ]

\* COOPS entry "co7" (Orange Walk Aqua)
co7 ==
  [ id |-> <<"c","o","7">>,
    cooperativeName |-> <<"O","r","a","n","g","e"," ","W","a","l","k"," ","A","q","u","a">>,
    officialName |-> <<"O","r","a","n","g","e"," ","W","a","l","k"," ","A","q","u","a","c","u","l","t","u","r","e"," ","C","o","o","p","e","r","a","t","i","v","e">>,
    district |-> <<"O","r","a","n","g","e"," ","W","a","l","k">>,
    gps |-> <<"1","8",".","0","8",",","-","8","8",".","5","6">>,
    sector |-> <<"A","q","u","a","c","u","l","t","u","r","e">>,
    valueChain |-> <<"E","x","p","o","r","t","e","r">>,
    buyer |-> <<"M","a","r","S","e","a"," ","I","n","t","l">>,
    members |-> 95,
    capacity |-> 85,
    capacityUnit |-> <<"t","o","n","s">>,
    product |-> <<"S","h","r","i","m","p"," ","(","v","a","l","u","e","-","a","d","d","e","d",")">>,
    certifications |-> <<<<"H","A","C","C","P">>, <<"I","S","O"," ","2","2","0","0","0">>>>,
    exportHistory |-> <<<<"I","n","t","e","r","n","a","t","i","o","n","a","l">>>>,
    fdiPriority |-> <<"A","g","r","i","b","u","s","i","n","e","s","s"," ","&"," ","F","i","s","h","e","r","i","e","s">>,
    esg |-> <<<<"C","l","i","m","a","t","e">>, <<"B","i","o","d","i","v","e","r","s","i","t","y">>>>,
    partners |-> <<<<"T","e","c","h"," ","A","s","s","i","s","t"," ","A","q","u","a">>>>,
    contact |-> <<"c","o","n","t","a","c","t","@","o","w","a","q",".","o","r","g"," ","|"," ","+","5","0","1"," ","5","5","5","-","1","0","0","7">> ]

\* COOPS entry "co8" (Cayo Trails)
co8 ==
  [ id |-> <<"c","o","8">>,
    cooperativeName |-> <<"C","a","y","o"," ","T","r","a","i","l","s">>,
    officialName |-> <<"C","a","y","o"," ","C","o","m","m","u","n","i","t","y"," ","T","r","a","i","l","s"," ","C","o","o","p","e","r","a","t","i","v","e">>,
    district |-> <<"C","a","y","o">>,
    gps |-> <<"1","7",".","2","5",",","-","8","8",".","7","8">>,
    sector |-> <<"E","c","o","-","t","o","u","r","i","s","m">>,
    valueChain |-> <<"P","r","o","d","u","c","e","r">>,
    buyer |-> <<"G","r","e","e","n"," ","J","o","u","r","n","e","y","s">>,
    members |-> 30,
    capacity |-> 6000,
    capacityUnit |-> <<"u","n","i","t","s">>,
    product |-> <<"C","o","m","m","u","n","i","t","y","-","l","e","d"," ","t","o","u","r","s">>,
    certifications |-> <<<<"F","a","i","r"," ","T","r","a","d","e">>>>,
    exportHistory |-> <<<<"R","e","g","i","o","n","a","l">>>>,
    fdiPriority |-> <<"S","u","s","t","a","i","n","a","b","l","e"," ","T","o","u","r","i","s","m">>,
    esg |-> <<<<"C","o","m","m","u","n","i","t","y">>, <<"Y","o","u","t","h">>>>,
    partners |-> <<<<"N","G","O"," ","T","r","a","i","l","s">>>>,
    contact |-> <<"b","o","o","k","i","n","g","s","@","c","a","y","o","t","r","a","i","l","s",".","b","z"," ","|"," ","+","5","0","1"," ","5","5","5","-","1","0","0","8">> ]


\* a record with two certifications, empty esg / exportHistory / partners lists,
\* and members / capacity on the upper bounds of the default ranges
cx1 ==
  [ id |-> <<"c","x","1">>,
    cooperativeName |-> <<"K","e","l","p"," ","C","o">>,
    officialName |-> <<"K","e","l","p"," ","C","o"," ","L","t","d">>,
    district |-> <<"C","a","y","o">>,
    gps |-> <<"1","7",".","0","0",",","-","8","8",".","0","0">>,
    sector |-> <<"S","e","a","w","e","e","d">>,
    valueChain |-> <<"E","x","p","o","r","t","e","r">>,
    buyer |-> <<"B","l","u","e"," ","F","o","o","d","s"," ","L","t","d",".">>,
    members |-> 1000,
    capacity |-> 20000,
    capacityUnit |-> <<"k","g">>,
    product |-> <<"D","r","i","e","d"," ","k","e","l","p">>,
    certifications |-> <<<<"O","r","g","a","n","i","c">>, <<"H","A","C","C","P">>>>,
    exportHistory |-> <<>>,
    fdiPriority |-> <<"B","l","u","e"," ","E","c","o","n","o","m","y">>,
    esg |-> <<>>,
    partners |-> <<>>,
    contact |-> <<"k","e","l","p","@","c","o","o","p",".","b","z">> ]

\* a record with no certification, whose members and capacity exceed the default ranges
cx2 ==
  [ id |-> <<"c","x","2">>,
    cooperativeName |-> <<"B","i","g"," ","R","e","e","f">>,
    officialName |-> <<"B","i","g"," ","R","e","e","f"," ","U","n","i","o","n">>,
    district |-> <<"T","o","l","e","d","o">>,
    gps |-> <<"1","6",".","1","0",",","-","8","8",".","9","0">>,
    sector |-> <<"F","i","s","h","e","r","i","e","s">>,
    valueChain |-> <<"P","r","o","d","u","c","e","r">>,
    buyer |-> <<"B","e","l","S","e","a"," ","E","x","p","o","r","t">>,
    members |-> 1200,
    capacity |-> 25000,
    capacityUnit |-> <<"t","o","n","s">>,
    product |-> <<"C","o","n","c","h">>,
    certifications |-> <<>>,
    exportHistory |-> <<<<"L","o","c","a","l">>>>,
    fdiPriority |-> <<"B","l","u","e"," ","E","c","o","n","o","m","y">>,
    esg |-> <<<<"C","l","i","m","a","t","e">>>>,
    partners |-> <<<<"N","G","O"," ","A">>>>,
    contact |-> <<"r","e","e","f","@","c","o","o","p",".","b","z">> ]

(***************************************************************************)
(* Arrays hold references to record objects; a reference is written as the *)
(* name of the object, and Obj dereferences it.                            *)
(***************************************************************************)
\* records none of whose fields holds a comma or a line break: cx1, co6 and co1
\* with another gps text
cy1 == [cx1 EXCEPT !.id = <<"c","y","1">>, !.gps = <<"1","7",".","0","0","N"," ","8","8",".","0","0","W">>]
cy2 == [co6 EXCEPT !.id = <<"c","y","2">>, !.gps = <<"1","8",".","3","9","N"," ","8","8",".","3","9","W">>]
cy3 == [co1 EXCEPT !.id = <<"c","y","3">>, !.gps = <<"1","6",".","9","0","N"," ","8","8",".","2","0","W">>]

\* a record that carries the optional buyerCountry the third buildGraph of
\* EcosystemGraph.tsx and the filterCoops of part_000 read through `any`
cz1 ==
  [k \in DOMAIN co5 \cup {"buyerCountry"} |->
     CASE k = "id" -> <<"c","z","1">>
       [] k = "buyerCountry" -> <<"U","S","A">>
       [] OTHER -> co5[k]]

Refs == {"co1", "co2", "co3", "co4", "co5", "co6", "co7", "co8", "cx1", "cx2",
         "cy1", "cy2", "cy3", "cz1"}

Obj(r) ==
  CASE r = "co1" -> co1 [] r = "co2" -> co2 [] r = "co3" -> co3 [] r = "co4" -> co4
    [] r = "co5" -> co5 [] r = "co6" -> co6 [] r = "co7" -> co7 [] r = "co8" -> co8
    [] r = "cx1" -> cx1 [] r = "cx2" -> cx2
    [] r = "cy1" -> cy1 [] r = "cy2" -> cy2 [] r = "cy3" -> cy3
    [] r = "cz1" -> cz1

\* export const COOPS: Cooperative[]
COOPS == <<"co1", "co2", "co3", "co4", "co5", "co6", "co7", "co8">>

(***************************************************************************)
(* Filter Specification                                                    *)
(***************************************************************************)
\* defaultCoopFilters(): the selectors are absent properties
defaultCoopFilters ==
  [ q |-> <<>>, minMembers |-> 0, maxMembers |-> 1000,
    minCapacity |-> 0, maxCapacity |-> 20000 ]

\* the optional single-choice selectors of CoopFilters
ScalarSelectors == {"sector", "valueChain", "district", "buyer", "fdiPriority"}
ListSelectors == {"certification", "esg", "exportHistory"}
Selectors == ScalarSelectors \cup ListSelectors

\* CoopFilters of the buyer-country variant adds buyerCountry
SelectorsOf(e) == IF e = "part_000" THEN Selectors \cup {"buyerCountry"} ELSE Selectors

\* the record's list that a list selector is tested against
ListField(k) ==
  CASE k = "certification" -> "certifications"
    [] k = "esg" -> "esg"
    [] k = "exportHistory" -> "exportHistory"

(***************************************************************************)
(* Filter Engine: filterCoops                                              *)
(***************************************************************************)
\* the lower-cased, space-joined haystack of one record
haystack(c) ==
  toLowerCase(join(<< c.cooperativeName, c.officialName, c.sector, c.valueChain,
                      c.district, c.buyer, c.product, c.fdiPriority, c.contact,
                      join(c.partners, <<" ">>), join(c.certifications, <<" ">>) >>,
                   <<" ">>))

\* textPasses without lower-casing the query
textPassesCaseSensitive(c, f) ==
  Truthy(Get(f, "q")) => includes(haystack(c), Get(f, "q"))

\* if (f.q) { ... if (!txt.includes(q)) return false; }
textPasses(c, f) ==
  Truthy(Get(f, "q")) => includes(haystack(c), toLowerCase(Get(f, "q")))

\* scalarPasses guarding on `f.k !== undefined` instead of truthiness
scalarPassesDefinedGuard(c, f, k) == ~(Get(f, k) # Undefined /\ c[k] # Get(f, k))

\* if (f.k && c.k !== f.k) return false;   for one scalar selector k
scalarPasses(c, f, k) == ~(Truthy(Get(f, k)) /\ c[k] # Get(f, k))

\* listPasses comparing the joined list with the value instead of testing membership
listPassesJoined(c, f, k) ==
  ~(Truthy(Get(f, k)) /\ join(c[ListField(k)], <<" ">>) # Get(f, k))

\* if (f.k && !c.list.includes(f.k)) return false;   for one list selector k
listPasses(c, f, k) == ~(Truthy(Get(f, k)) /\ ~arrIncludes(c[ListField(k)], Get(f, k)))

\* membersPasses with exclusive bounds
membersPassesExclusive(c, f) == ~(c.members <= f.minMembers \/ c.members >= f.maxMembers)

\* if (c.members < f.minMembers || c.members > f.maxMembers) return false;
membersPasses(c, f) == ~(c.members < f.minMembers \/ c.members > f.maxMembers)

\* capacityPasses with an exclusive upper bound
capacityPassesBelowMax(c, f) == ~(c.capacity < f.minCapacity \/ c.capacity >= f.maxCapacity)

\* capacityPasses with && in place of ||
capacityPassesAnd(c, f) == ~(c.capacity < f.minCapacity /\ c.capacity > f.maxCapacity)

\* if (c.capacity < f.minCapacity || c.capacity > f.maxCapacity) return false;
capacityPasses(c, f) == ~(c.capacity < f.minCapacity \/ c.capacity > f.maxCapacity)

\* if (f.buyerCountry && (c as any).buyerCountry !== f.buyerCountry) return false;
buyerCountryPasses(c, f) ==
  ~(Truthy(Get(f, "buyerCountry")) /\ Get(c, "buyerCountry") # Get(f, "buyerCountry"))

\* keep without the fdiPriority line
keepWithoutFdi(c, f) ==
  /\ textPasses(c, f)
  /\ scalarPasses(c, f, "sector")
  /\ scalarPasses(c, f, "valueChain")
  /\ scalarPasses(c, f, "district")
  /\ scalarPasses(c, f, "buyer")
  /\ listPasses(c, f, "certification")
  /\ listPasses(c, f, "esg")
  /\ listPasses(c, f, "exportHistory")
  /\ membersPasses(c, f)
  /\ capacityPasses(c, f)

\* keep whose sector line lacks the `f.sector &&` guard
keepSectorUnguarded(c, f) ==
  /\ textPasses(c, f)
  /\ c.sector = Get(f, "sector")
  /\ scalarPasses(c, f, "valueChain")
  /\ scalarPasses(c, f, "district")
  /\ scalarPasses(c, f, "buyer")
  /\ listPasses(c, f, "certification")
  /\ scalarPasses(c, f, "fdiPriority")
  /\ listPasses(c, f, "esg")
  /\ listPasses(c, f, "exportHistory")
  /\ membersPasses(c, f)
  /\ capacityPasses(c, f)

\* the callback given to list.filter in src/data/coops.ts
keep(c, f) ==
  /\ textPasses(c, f)
  /\ scalarPasses(c, f, "sector")
  /\ scalarPasses(c, f, "valueChain")
  /\ scalarPasses(c, f, "district")
  /\ scalarPasses(c, f, "buyer")
  /\ listPasses(c, f, "certification")
  /\ scalarPasses(c, f, "fdiPriority")
  /\ listPasses(c, f, "esg")
  /\ listPasses(c, f, "exportHistory")
  /\ membersPasses(c, f)
  /\ capacityPasses(c, f)

\* the callback of the buyer-country variant of src/data/coops.ts
keepBuyerCountry(c, f) ==
  /\ textPasses(c, f)
  /\ scalarPasses(c, f, "sector")
  /\ scalarPasses(c, f, "valueChain")
  /\ scalarPasses(c, f, "district")
  /\ scalarPasses(c, f, "buyer")
  /\ listPasses(c, f, "certification")
  /\ scalarPasses(c, f, "fdiPriority")
  /\ listPasses(c, f, "esg")
  /\ listPasses(c, f, "exportHistory")
  /\ buyerCountryPasses(c, f)
  /\ membersPasses(c, f)
  /\ capacityPasses(c, f)

Reverse(l) == [i \in 1..Len(l) |-> l[Len(l) + 1 - i]]

\* filterCoops returning the passing elements last-first
filterCoopsReversed(list, f) == Reverse(SelectSeq(list, LAMBDA r : keep(Obj(r), f)))

\* a filter that drops the first record it would keep
filterCoopsSkippingFirst(list, f) ==
  LET kept == SelectSeq(list, LAMBDA r : keep(Obj(r), f))
  IN IF kept = <<>> THEN kept ELSE Tail(kept)

\* Array.prototype.filter keeps the passing elements in their order
filterCoops(list, f) == SelectSeq(list, LAMBDA r : keep(Obj(r), f))

filterCoopsBuyerCountry(list, f) ==
  SelectSeq(list, LAMBDA r : keepBuyerCountry(Obj(r), f))

\* the filterCoops that the build links
Apply(e, list, f) ==
  IF e = "part_000" THEN filterCoopsBuyerCountry(list, f) ELSE filterCoops(list, f)

(***************************************************************************)
(* The engine on its own: inputs drawn from bounded sets                   *)
(***************************************************************************)
\* longest generated record list
MaxLen == 2
\* most properties of a Filter Specification that differ from the defaults
MaxActive == 2

\* records the generated lists are drawn from
Pool == {"co1", "cx1", "cx2"}

\* lists of distinct records of Pool up to MaxLen, and the shipped catalog
RECURSIVE ListsUpTo(_)
ListsUpTo(n) ==
  IF n = 0 THEN {<<>>}
  ELSE LET shorter == ListsUpTo(n - 1)
       IN shorter \cup
          { Append(l, r) : l \in {s \in shorter : Len(s) = n - 1},
                           r \in Pool }
Distinct(l) == \A i, j \in 1..Len(l) : i # j => l[i] # l[j]
Lists == {l \in ListsUpTo(MaxLen) : Distinct(l)} \cup {COOPS}

\* query strings tried
Queries ==
  { <<"s","e","a","w","e","e","d">>,          \* "seaweed"
    <<"S","E","A","W","E","E","D">>,          \* "SEAWEED"
    <<"s","e","a","w","e","e","d","s">>,      \* "seaweeds"
    <<"c","l","i","m","a","t","e">> }         \* "climate"

\* selector values tried
SelectorValues(k) ==
  CASE k = "sector" -> {BLUE_SECTORS[1], BLUE_SECTORS[4], toLowerCase(BLUE_SECTORS[1])}
    [] k = "valueChain" -> {VALUE_CHAIN[1]}
    [] k = "district" -> {DISTRICTS[6]}
    [] k = "buyer" -> {co1.buyer}
    [] k = "fdiPriority" -> {FDI_PRIORITIES[1], BLUE_SECTORS[4]}
    [] k = "certification" -> {CERTS[3], CERTS[5]}
    [] k = "esg" -> {ESG_TAGS[1]}
    [] k = "exportHistory" -> {<<"L","o","c","a","l">>}
    [] k = "buyerCountry" -> {<<"U","S","A">>}

\* the unset values tried: the empty string a cleared select writes, and
\* the undefined that the focus handlers write to sector and fdiPriority
Unset(k) == IF k \in {"sector", "fdiPriority"} THEN {<<>>, Undefined} ELSE {<<>>}

\* range bounds tried
RangeValues(k) ==
  CASE k = "minMembers" -> {45, 46, 500}
    [] k = "maxMembers" -> {10, 45}
    [] k = "minCapacity" -> {13}
    [] k = "maxCapacity" -> {12}

\* number of properties in which f differs from defaultCoopFilters()
Active(f) ==
  Cardinality({k \in DOMAIN f :
                 k \notin DOMAIN defaultCoopFilters \/ f[k] # defaultCoopFilters[k]})

InitFilter ==
  /\ coops \in Lists
  /\ engine \in {"coops.ts", "part_000"}
  /\ filters = defaultCoopFilters
  /\ panelFilters = filters
  /\ filtered = Apply(engine, coops, filters)
  /\ selectedId = Undefined
  /\ showSnapshot = FALSE
  /\ app = "none"
  /\ csv = <<>>
  /\ lastFocus = NoFocus
  /\ label = NoLabel

\* the properties of CoopFilters in declaration order
FieldOrder ==
  << "q", "sector", "valueChain", "district", "buyer", "certification", "fdiPriority",
     "esg", "exportHistory", "buyerCountry", "minMembers", "maxMembers",
     "minCapacity", "maxCapacity" >>
IndexOf(k) == CHOOSE i \in 1..Len(FieldOrder) : FieldOrder[i] = k

\* property k of f still has its default (an absent selector, the default query or bound)
AtDefault(f, k) ==
  IF k \in DOMAIN defaultCoopFilters THEN f[k] = defaultCoopFilters[k] ELSE k \notin DOMAIN f

\* call filterCoops with the specification { ...filters, k: v }; the specification
\* is built one property at a time, in declaration order
Call(k, v) ==
  /\ Active(filters) < MaxActive
  /\ \A j \in IndexOf(k)..Len(FieldOrder) : AtDefault(filters, FieldOrder[j])
  /\ filters' = Put(filters, k, v)
  /\ filtered' = Apply(engine, coops, filters')
  /\ panelFilters' = filters'
  /\ UNCHANGED <<coops, selectedId, showSnapshot, app, engine, csv, lastFocus, label>>

SetQuery == \E v \in Queries : Call("q", v)

SetSelector ==
  \E k \in SelectorsOf(engine) : \E v \in SelectorValues(k) \cup Unset(k) : Call(k, v)

SetRange ==
  \E k \in {"minMembers", "maxMembers", "minCapacity", "maxCapacity"} :
    \E v \in RangeValues(k) : Call(k, v)

NextFilter == SetQuery \/ SetSelector \/ SetRange

SpecFilter == InitFilter /\ [][NextFilter]_vars

(***************************************************************************)
(* The App compositions                                                    *)
(*   "App.tsx#1"  src/App.tsx, first composition (EcosystemGraph, Snapshot  *)
(*                toggle)                                                  *)
(*   "App.tsx#2"  src/App.tsx, second composition (NetworkGraph, Blue       *)
(*                Economy base, "Clear filters")                           *)
(*   "part_004"   EcosystemGraph composition over the Blue Economy base    *)
(*   "part_005"   NetworkGraph composition over the whole catalog          *)
(* Every handler is followed by the render that recomputes `filtered`.     *)
(***************************************************************************)
Apps == {"App.tsx#1", "App.tsx#2", "part_004", "part_005"}

\* COOPS.filter(c => BLUE_SECTORS.includes(c.sector))
BlueBase == SelectSeq(COOPS, LAMBDA r : arrIncludes(BLUE_SECTORS, Obj(r).sector))

\* the list each composition filters
BaseOf(a) == IF a \in {"App.tsx#2", "part_004"} THEN BlueBase ELSE COOPS

\* the options of each select of the FiltersPanel
Options(k) ==
  CASE k = "sector" -> Elems(BLUE_SECTORS)
    [] k = "valueChain" -> Elems(VALUE_CHAIN)
    [] k = "district" -> Elems(DISTRICTS)
    [] k = "fdiPriority" -> Elems(FDI_PRIORITIES)
    [] k = "certification" -> Elems(CERTS)
    [] k = "esg" -> Elems(ESG_TAGS)
    [] k = "exportHistory" -> { <<"L","o","c","a","l">>,
                                <<"R","e","g","i","o","n","a","l">>,
                                <<"I","n","t","e","r","n","a","t","i","o","n","a","l">> }
    [] k = "buyer" -> {Obj(r).buyer : r \in Elems(coops)}

\* the option picked in the explored runs, and the placeholder option ""
Picked(k) ==
  CASE k = "sector" -> BLUE_SECTORS[4]
    [] k = "valueChain" -> VALUE_CHAIN[1]
    [] k = "district" -> DISTRICTS[6]
    [] k = "fdiPriority" -> FDI_PRIORITIES[1]
    [] k = "certification" -> CERTS[3]
    [] k = "esg" -> ESG_TAGS[1]
    [] k = "exportHistory" -> <<"L","o","c","a","l">>
    [] k = "buyer" -> co6.buyer
Choices(k) == (Options(k) \cap {Picked(k)}) \cup {<<>>}

\* the texts typed into the search Input in the explored runs
Typed == { <<"S","E","A">> }     \* "SEA"

\* the rows of the table (nodes of the graph) that get clicked: the first MaxRow
MaxRow == 1

\* what a select shows: value ?? ""
Shown(k) == IF Get(panelFilters, k) = Undefined THEN <<>> ELSE Get(panelFilters, k)

\* most properties in which an edit of the panel or a focus of the graph lets
\* the Filter Specification differ from the defaults
MaxEdited == 2

Init ==
  /\ app \in Apps
  /\ engine = "coops.ts"
  /\ coops = BaseOf(app)
  /\ filters = defaultCoopFilters
  /\ panelFilters = filters
  /\ filtered = filterCoops(coops, filters)
  /\ selectedId = Undefined
  /\ showSnapshot = FALSE
  /\ csv = <<>>
  /\ lastFocus = NoFocus
  /\ label = NoLabel

\* a panel edit after which the consumers still hold the list of the
\* specification before the edit
setFiltersKeepingList(f) ==
  /\ filters' = f
  /\ filtered' = filtered
  /\ selectedId' = IF app = "part_004" THEN Undefined ELSE selectedId
  /\ showSnapshot' =
       IF app = "App.tsx#1" /\ ~Truthy(Get(f, "sector")) /\ ~Truthy(Get(f, "fdiPriority"))
         THEN FALSE ELSE showSnapshot
  /\ panelFilters' = filters'
  /\ UNCHANGED <<coops, app, engine, csv, lastFocus, label>>

\* a setFilters prop that leaves the selection as it was in every composition
setFiltersKeepingSelection(f) ==
  /\ filters' = f
  /\ filtered' = filterCoops(coops, f)
  /\ selectedId' = selectedId
  /\ showSnapshot' =
       IF app = "App.tsx#1" /\ ~Truthy(Get(f, "sector")) /\ ~Truthy(Get(f, "fdiPriority"))
         THEN FALSE ELSE showSnapshot
  /\ panelFilters' = filters'
  /\ UNCHANGED <<coops, app, engine, csv, lastFocus, label>>

\* the setFilters prop each composition hands to the FiltersPanel
setFiltersFromPanel(f) ==
  /\ filters' = f
  /\ filtered' = filterCoops(coops, f)
  /\ selectedId' = IF app = "part_004" THEN Undefined ELSE selectedId
  /\ showSnapshot' =
       IF app = "App.tsx#1" /\ ~Truthy(Get(f, "sector")) /\ ~Truthy(Get(f, "fdiPriority"))
         THEN FALSE ELSE showSnapshot
  /\ panelFilters' = filters'
  /\ UNCHANGED <<coops, app, engine, csv, lastFocus, label>>

\* FiltersPanel: set(patch) = setFilters({ ...filters, ...patch })
set(k, v) ==
  /\ Active(Put(panelFilters, k, v)) <= MaxEdited
  /\ setFiltersFromPanel(Put(panelFilters, k, v))

\* the search Input: onChange fires when the text changes
PanelQuery == \E v \in Typed \cup {<<>>} : v # panelFilters.q /\ set("q", v)

\* a SelectBox: onChange fires when another option is picked
PanelSelect == \E k \in Selectors : \E v \in Choices(k) : v # Shown(k) /\ set(k, v)

\* the capacity Inputs: Number(e.target.value)
PanelCapacity ==
  \E k \in {"minCapacity", "maxCapacity"} :
    \E v \in RangeValues(k) \cup {defaultCoopFilters[k]} : v # panelFilters[k] /\ set(k, v)

\* the Reset button: setFilters(defaultCoopFilters())
PanelReset == setFiltersFromPanel(defaultCoopFilters)

\* a selection that moves the clicked record to the front of the catalog in place
handleCoopSelectMovingRecord ==
  /\ \E i \in 1..Len(filtered) :
       /\ i <= MaxRow
       /\ selectedId' = Obj(filtered[i]).id
       /\ coops' = <<filtered[i]>> \o SelectSeq(coops, LAMBDA r : r # filtered[i])
  /\ UNCHANGED <<filters, panelFilters, filtered, showSnapshot, app, engine, csv, lastFocus, label>>

\* setSelectedId(id): a click on a CoopTable row, or on a coop node of the graph;
\* both show the records of `filtered`
handleCoopSelect ==
  /\ \E i \in 1..Len(filtered) : i <= MaxRow /\ selectedId' = Obj(filtered[i]).id
  /\ UNCHANGED <<coops, filters, panelFilters, filtered, showSnapshot, app, engine, csv, lastFocus, label>>

\* a focus that rebuilds the Filter Specification from the defaults
focusFromGraphFromDefaults(k, v) ==
  /\ Active(Put(filters, k, v)) <= MaxEdited
  /\ filters' = Put(defaultCoopFilters, k, v)
  /\ filtered' = filterCoops(coops, filters')
  /\ selectedId' = IF app \in {"App.tsx#2", "part_004"} THEN Undefined ELSE selectedId
  /\ showSnapshot' = IF app = "App.tsx#1" THEN TRUE ELSE showSnapshot
  /\ panelFilters' = filters'
  /\ UNCHANGED <<coops, app, engine, csv, label>>

\* a focus after which the FiltersPanel still holds the `filters` prop of the
\* render before it
focusFromGraphStalePanel(k, v) ==
  /\ Active(Put(filters, k, v)) <= MaxEdited
  /\ filters' = Put(filters, k, v)
  /\ filtered' = filterCoops(coops, filters')
  /\ selectedId' = IF app \in {"App.tsx#2", "part_004"} THEN Undefined ELSE selectedId
  /\ showSnapshot' = IF app = "App.tsx#1" THEN TRUE ELSE showSnapshot
  /\ panelFilters' = panelFilters
  /\ UNCHANGED <<coops, app, engine, csv, label>>

\* what a graph category activation does, besides setting the selector k
focusFromGraph(k, v) ==
  /\ Active(Put(filters, k, v)) <= MaxEdited
  /\ filters' = Put(filters, k, v)
  /\ filtered' = filterCoops(coops, filters')
  /\ selectedId' = IF app \in {"App.tsx#2", "part_004"} THEN Undefined ELSE selectedId
  /\ showSnapshot' = IF app = "App.tsx#1" THEN TRUE ELSE showSnapshot
  /\ panelFilters' = filters'
  /\ UNCHANGED <<coops, app, engine, csv, label>>

\* the whitespace a \s* at the start of the rest consumes
RECURSIVE trimStart(_)
trimStart(s) == IF s # <<>> /\ s[1] = " " THEN trimStart(Tail(s)) ELSE s

\* a strip that removes the prefix up to the colon and keeps the blank after it
replacePrefixKeepingBlank(id, prefix) ==
  IF Len(id) >= Len(prefix) /\ SubSeq(id, 1, Len(prefix)) = prefix
    THEN SubSeq(id, Len(prefix) + 1, Len(id))
    ELSE id

\* String(n.id).replace(/^Sector:\s*/, "") and .replace(/^FDI:\s*/, "")
replacePrefix(id, prefix) ==
  IF Len(id) >= Len(prefix) /\ SubSeq(id, 1, Len(prefix)) = prefix
    THEN trimStart(SubSeq(id, Len(prefix) + 1, Len(id)))
    ELSE id

\* buildGraph: the ids `Sector: ${s}` of the hubs of new Set(coops.map(c => c.sector))
hubsSector(l) == { <<"S","e","c","t","o","r",":"," ">> \o Obj(r).sector : r \in Elems(l) }

\* buildGraph: the ids `FDI: ${p}` of the hubs of new Set(coops.map(c => c.fdiPriority))
hubsFdi(l) == { <<"F","D","I",":"," ">> \o Obj(r).fdiPriority : r \in Elems(l) }

\* click on a "Sector: s" hub of the graph built from `filtered`
handleSectorFromGraph(s) ==
  /\ s \in {Obj(r).sector : r \in Elems(filtered)}
  /\ focusFromGraph("sector", s)

\* click on a "FDI: p" hub of the graph built from `filtered`
handleFdiFromGraph(p) ==
  /\ p \in {Obj(r).fdiPriority : r \in Elems(filtered)}
  /\ focusFromGraph("fdiPriority", p)

SectorHubClick ==
  /\ \E n \in hubsSector(filtered) :
       handleSectorFromGraph(replacePrefix(n, <<"S","e","c","t","o","r",":">>))
  /\ UNCHANGED lastFocus

FdiHubClick ==
  /\ \E n \in hubsFdi(filtered) :
       handleFdiFromGraph(replacePrefix(n, <<"F","D","I",":">>))
  /\ UNCHANGED lastFocus

\* CoopDetails, rendered when the selected record is found: onClose
onClose ==
  /\ \E r \in Elems(COOPS) : Obj(r).id = selectedId
  /\ selectedId' = Undefined
  /\ UNCHANGED <<coops, filters, panelFilters, filtered, showSnapshot, app, engine, csv, lastFocus, label>>

\* a "Clear focus" that unsets every single-choice selector
ClearFocusEverySelector ==
  /\ app \in {"App.tsx#1", "part_004"}
  /\ Truthy(Get(filters, "sector")) \/ Truthy(Get(filters, "fdiPriority"))
  /\ filters' = [k \in DOMAIN filters \cup {"sector", "fdiPriority"} |->
                   IF k \in Selectors THEN Undefined ELSE filters[k]]
  /\ filtered' = filterCoops(coops, filters')
  /\ showSnapshot' = IF app = "App.tsx#1" THEN FALSE ELSE showSnapshot
  /\ panelFilters' = filters'
  /\ UNCHANGED <<coops, selectedId, app, engine, csv, lastFocus, label>>

\* "Clear focus" of the Snapshot, rendered while a sector or FDI focus is set
ClearFocus ==
  /\ app \in {"App.tsx#1", "part_004"}
  /\ Truthy(Get(filters, "sector")) \/ Truthy(Get(filters, "fdiPriority"))
  /\ filters' = Put(Put(filters, "sector", Undefined), "fdiPriority", Undefined)
  /\ filtered' = filterCoops(coops, filters')
  /\ showSnapshot' = IF app = "App.tsx#1" THEN FALSE ELSE showSnapshot
  /\ panelFilters' = filters'
  /\ UNCHANGED <<coops, selectedId, app, engine, csv, lastFocus, label>>

\* "Clear filters" of the second App.tsx composition
ClearFilters ==
  /\ app = "App.tsx#2"
  /\ Truthy(Get(filters, "sector")) \/ Truthy(Get(filters, "fdiPriority"))
  /\ selectedId' = Undefined
  /\ filters' = Put(defaultCoopFilters, "q", filters.q)
  /\ filtered' = filterCoops(coops, filters')
  /\ panelFilters' = filters'
  /\ UNCHANGED <<coops, showSnapshot, app, engine, csv, lastFocus, label>>

\* onResetAll handed to the EcosystemGraph by the first App.tsx composition
onResetAll ==
  /\ app = "App.tsx#1"
  /\ filters' = Put(Put(Put(Put(Put(filters, "q", <<>>), "sector", Undefined),
                             "fdiPriority", Undefined), "buyer", Undefined),
                     "district", Undefined)
  /\ filtered' = filterCoops(coops, filters')
  /\ showSnapshot' = FALSE
  /\ panelFilters' = filters'
  /\ UNCHANGED <<coops, selectedId, app, engine, csv, lastFocus, label>>

\* onLocationSelect handed to the EcosystemGraph by the first App.tsx composition
onLocationSelect ==
  /\ app = "App.tsx#1"
  /\ showSnapshot' = TRUE
  /\ UNCHANGED <<coops, filters, panelFilters, filtered, selectedId, app, engine, csv, lastFocus, label>>

Next ==
  \/ PanelQuery
  \/ PanelSelect
  \/ PanelCapacity
  \/ PanelReset
  \/ handleCoopSelect
  \/ SectorHubClick
  \/ FdiHubClick
  \/ onClose
  \/ ClearFocus
  \/ ClearFilters
  \/ onResetAll
  \/ onLocationSelect

Spec == Init /\ [][Next]_vars

(***************************************************************************)
(* The Snapshot aggregates, computed from the list `filtered`              *)
(***************************************************************************)
\* list.reduce((a, c) => a + c[field], a0): a left fold
RECURSIVE reduce(_, _, _)
reduce(list, field, a) ==
  IF list = <<>> THEN a ELSE reduce(Tail(list), field, a + Obj(Head(list))[field])

\* filtered.length
coopCount(list) == Len(list)

\* filtered.reduce((a, c) => a + c.members, 0)
totalMembers(list) == reduce(list, "members", 0)

\* filtered.reduce((a, c) => a + c.capacity, 0)
totalCapacity(list) == reduce(list, "capacity", 0)

\* a buyer count that takes every record for a buyer of its own
uniqueBuyersCountPerRecord(list) == Len(list)

\* new Set(filtered.map(c => c.buyer)).size
uniqueBuyersCount(list) == Cardinality({Obj(list[i]).buyer : i \in 1..Len(list)})

\* The aggregates as a pure function: the catalogs are lists of distinct
\* records, two of which sell to the same buyer, and the list rendered is the
\* one filterCoops leaves under the range bounds
MaxShown == 3
SnapshotPool == {"co1", "co2", "co6", "cx1"}

RECURSIVE SnapshotLists(_)
SnapshotLists(n) ==
  IF n = 0 THEN {<<>>}
  ELSE LET shorter == SnapshotLists(n - 1)
       IN shorter \cup
          UNION { { Append(l, r) :
                      r \in {x \in SnapshotPool : \A i \in 1..(n - 1) : l[i] # x} } :
                  l \in {s \in shorter : Len(s) = n - 1} }

InitSnapshot ==
  /\ coops \in SnapshotLists(MaxShown)
  /\ engine = "coops.ts"
  /\ filters = defaultCoopFilters
  /\ panelFilters = filters
  /\ filtered = Apply(engine, coops, filters)
  /\ selectedId = Undefined
  /\ showSnapshot = TRUE
  /\ app = "part_004"
  /\ csv = <<>>
  /\ lastFocus = NoFocus
  /\ label = NoLabel

SpecSnapshot == InitSnapshot /\ [][SetRange]_vars

(***************************************************************************)
(* exportCSV                                                               *)
(***************************************************************************)
\* the decimal digits of a number field, as Array.prototype.join writes it
RECURSIVE toStr(_)
toStr(n) ==
  LET digit(d) == <<"0","1","2","3","4","5","6","7","8","9">>[d + 1]
  IN IF n < 10 THEN <<digit(n)>> ELSE toStr(n \div 10) \o <<digit(n % 10)>>

header ==
  << <<"C","o","o","p","e","r","a","t","i","v","e"," ","N","a","m","e">>,
     <<"O","f","f","i","c","i","a","l"," ","N","a","m","e">>,
     <<"D","i","s","t","r","i","c","t">>,
     <<"G","P","S">>,
     <<"S","e","c","t","o","r">>,
     <<"V","a","l","u","e"," ","C","h","a","i","n">>,
     <<"L","i","n","k","e","d"," ","B","u","y","e","r">>,
     <<"M","e","m","b","e","r","s","h","i","p"," ","S","i","z","e">>,
     <<"P","r","o","d","u","c","t","i","o","n"," ","C","a","p","a","c","i","t","y">>,
     <<"C","a","p","a","c","i","t","y"," ","U","n","i","t">>,
     <<"P","r","o","d","u","c","t"," ","F","o","c","u","s">>,
     <<"C","e","r","t","i","f","i","c","a","t","i","o","n","s">>,
     <<"E","x","p","o","r","t"," ","H","i","s","t","o","r","y">>,
     <<"F","D","I"," ","P","r","i","o","r","i","t","y">>,
     <<"E","S","G","/","S","D","G">>,
     <<"P","a","r","t","n","e","r","s">>,
     <<"C","o","n","t","a","c","t">> >>

\* a row whose list-valued fields are joined by ";"
rowOfSemicolon(r) ==
  << r.cooperativeName, r.officialName, r.district, r.gps, r.sector, r.valueChain,
     r.buyer, toStr(r.members), toStr(r.capacity), r.capacityUnit, r.product,
     join(r.certifications, <<";">>), join(r.exportHistory, <<";">>), r.fdiPriority,
     join(r.esg, <<";">>), join(r.partners, <<";">>), r.contact >>

\* the array exportCSV builds for one record, before .join(",")
rowOf(r) ==
  << r.cooperativeName, r.officialName, r.district, r.gps, r.sector, r.valueChain,
     r.buyer, toStr(r.members), toStr(r.capacity), r.capacityUnit, r.product,
     join(r.certifications, <<"|">>), join(r.exportHistory, <<"|">>), r.fdiPriority,
     join(r.esg, <<"|">>), join(r.partners, <<"|">>), r.contact >>

\* const lines = [header.join(",")].concat(rows.map((r) => [...].join(",")))
lines(rows) ==
  <<join(header, <<",">>)>> \o [i \in 1..Len(rows) |-> join(rowOf(Obj(rows[i])), <<",">>)]

\* the text of the Blob: lines.join("\n")
exportCSV(rows) == join(lines(rows), <<"\n">>)

\* exportCSV as a pure function: the rows are lists of distinct records, shipped
\* ones and ones without embedded commas
MaxRows == 2
CsvPool == {"co1", "co2", "co3", "co6", "cx1", "cy1", "cy2", "cy3"}

RECURSIVE CsvLists(_)
CsvLists(n) ==
  IF n = 0 THEN {<<>>}
  ELSE LET shorter == CsvLists(n - 1)
       IN shorter \cup
          UNION { { Append(l, r) :
                      r \in {x \in CsvPool : \A i \in 1..(n - 1) : l[i] # x} } :
                  l \in {s \in shorter : Len(s) = n - 1} }

InitCsv ==
  /\ coops \in CsvLists(MaxRows)
  /\ engine = "coops.ts"
  /\ filters = defaultCoopFilters
  /\ panelFilters = filters
  /\ filtered = Apply(engine, coops, filters)
  /\ selectedId = Undefined
  /\ showSnapshot = FALSE
  /\ app = "none"
  /\ csv = <<>>
  /\ lastFocus = NoFocus
  /\ label = NoLabel

\* the Export CSV button: onClick={() => exportCSV(filtered)}
ExportCSV ==
  /\ csv' = exportCSV(filtered)
  /\ UNCHANGED <<coops, filters, panelFilters, filtered, selectedId, showSnapshot, app, engine, lastFocus, label>>

SpecCsv == InitCsv /\ [][ExportCSV]_vars

(***************************************************************************)
(* Properties of the filter engine                                         *)
(***************************************************************************)
InList(r, l) == \E i \in 1..Len(l) : l[i] = r
IsSet(f, k) == Truthy(Get(f, k))

\* l1 is a subsequence of l2 (greedy left-to-right matching)
RECURSIVE IsSubseq(_, _)
IsSubseq(l1, l2) ==
  IF Len(l1) = 0 THEN TRUE
  ELSE IF Len(l2) = 0 THEN FALSE
  ELSE IF l1[1] = l2[1] THEN IsSubseq(Tail(l1), Tail(l2))
  ELSE IsSubseq(l1, Tail(l2))

\* what one set selector asks of a record: equality on a scalar field,
\* membership in a list field
Satisfies(c, k, v) ==
  IF k \in ListSelectors THEN v \in Elems(c[ListField(k)]) ELSE c[k] = v

\* the predicates that the filter contract lists, over the record c
AllListed(c, f) ==
  /\ f.q = <<>> \/ textPasses(c, f)
  /\ \A k \in Selectors : IsSet(f, k) => Satisfies(c, k, f[k])
  /\ f.minMembers <= c.members /\ c.members <= f.maxMembers
  /\ f.minCapacity <= c.capacity /\ c.capacity <= f.maxCapacity

\* the specification f without its property k
Remove(f, k) == [x \in DOMAIN f \ {k} |-> f[x]]

C2_AsStated == filters = defaultCoopFilters => filtered = coops

\* C2 (amended): filterCoops(records, defaultCoopFilters()) returns records
\* unchanged whenever every record has members in [0,1000] and capacity in
\* [0,20000], as every record of the shipped catalog has.
C2_DefaultIdentity ==
  ( /\ filters = [q |-> <<>>, minMembers |-> 0, maxMembers |-> 1000,
                  minCapacity |-> 0, maxCapacity |-> 20000]
    /\ \A r \in Elems(coops) :
         /\ Obj(r).members \in 0..1000
         /\ Obj(r).capacity \in 0..20000 )
  => filtered = coops

\* the default specification applied to the whole shipped catalog
C2_Witness ==
  /\ filters = defaultCoopFilters
  /\ coops = COOPS
  /\ filtered = COOPS

\* C3: setting one more, previously unset, selector never adds a record: the
\* result is contained in the result of the same specification with that
\* selector absent, empty or undefined.
C3_Monotone ==
  \A k \in SelectorsOf(engine) :
    IsSet(filters, k) =>
      /\ Elems(filtered) \subseteq Elems(Apply(engine, coops, Remove(filters, k)))
      /\ Elems(filtered) \subseteq Elems(Apply(engine, coops, Put(filters, k, <<>>)))
      /\ Elems(filtered) \subseteq Elems(Apply(engine, coops, Put(filters, k, Undefined)))

\* a set selector that strictly narrows a non-empty result
C3_Witness ==
  \E k \in Selectors :
    /\ IsSet(filters, k)
    /\ filtered # <<>>
    /\ Len(filtered) < Len(Apply(engine, coops, Remove(filters, k)))

\* C4: the result is a subsequence of the input: only input records, none
\* twice, in the input's relative order.
C4_Stable ==
  /\ IsSubseq(filtered, coops)
  /\ \A i, j \in 1..Len(filtered) : i # j => filtered[i] # filtered[j]

\* at least two records kept, and at least one dropped
C4_Witness ==
  /\ Len(filtered) >= 2
  /\ Len(filtered) < Len(coops)
  /\ filtered[1] # coops[1]

\* the record lies within the ranges of defaultCoopFilters()
InDefaultRanges(c) ==
  /\ 0 <= c.members /\ c.members <= 1000
  /\ 0 <= c.capacity /\ c.capacity <= 20000

\* C5: a set list selector (certification, esg, exportHistory) passes a record
\* iff the record's list contains the value; a set scalar selector (sector,
\* valueChain, district, buyer, fdiPriority) passes it iff the field is exactly
\* the value: every kept record satisfies every set selector, and with a single
\* selector set the kept records are exactly the satisfying ones.
C5_MembershipVsEquality ==
  \A k \in Selectors :
    IsSet(filters, k) =>
      /\ \A r \in Elems(filtered) : Satisfies(Obj(r), k, filters[k])
      /\ filters = Put(defaultCoopFilters, k, filters[k]) =>
           \A r \in Elems(coops) :
             (InDefaultRanges(Obj(r)) /\ Satisfies(Obj(r), k, filters[k]))
               => InList(r, filtered)

\* certification = "HACCP" keeps the record certified [Organic, HACCP] and drops
\* the record with no certification
C5_Witness ==
  /\ filters = Put(defaultCoopFilters, "certification", CERTS[3])
  /\ cx1.certifications = <<CERTS[1], CERTS[3]>>
  /\ cx2.certifications = <<>>
  /\ coops = <<"cx2", "cx1">>
  /\ filtered = <<"cx1">>

\* C6: both range bounds are inclusive: every kept record has
\* minMembers <= members <= maxMembers and minCapacity <= capacity <= maxCapacity,
\* and when only the ranges differ from the defaults every such record is kept.
C6_RangeInclusive ==
  LET inRange(c) ==
        /\ filters.minMembers <= c.members /\ c.members <= filters.maxMembers
        /\ filters.minCapacity <= c.capacity /\ c.capacity <= filters.maxCapacity
  IN /\ \A r \in Elems(filtered) : inRange(Obj(r))
     /\ (DOMAIN filters = DOMAIN defaultCoopFilters /\ filters.q = <<>>) =>
          \A r \in Elems(coops) : inRange(Obj(r)) => InList(r, filtered)

\* members = 45 passes minMembers = 45, maxMembers = 45
C6_Witness ==
  /\ filters.minMembers = 45 /\ filters.maxMembers = 45
  /\ co1.members = 45
  /\ InList("co1", filtered)

\* C7: an inverted range (min > max) on members or capacity yields the empty list.
C7_InvertedEmpty ==
  (filters.minMembers > filters.maxMembers \/ filters.minCapacity > filters.maxCapacity)
    => filtered = <<>>

\* minMembers = 500, maxMembers = 10 on the shipped catalog
C7_Witness ==
  /\ filters.minMembers = 500 /\ filters.maxMembers = 10
  /\ coops = COOPS
  /\ filtered = <<>>

\* the text the query is searched in, field by field
searchText(c) ==
  c.cooperativeName \o <<" ">> \o c.officialName \o <<" ">> \o c.sector \o <<" ">>
    \o c.valueChain \o <<" ">> \o c.district \o <<" ">> \o c.buyer \o <<" ">>
    \o c.product \o <<" ">> \o c.fdiPriority \o <<" ">> \o c.contact \o <<" ">>
    \o join(c.partners, <<" ">>) \o <<" ">> \o join(c.certifications, <<" ">>)

\* s occurs in t as a contiguous substring
Occurs(s, t) == \E i \in 1..(Len(t) - Len(s) + 1) : SubSeq(t, i, i + Len(s) - 1) = s

\* C8: for a non-empty query a record passes iff the lower-cased query occurs in
\* the lower-cased, space-joined text of the eleven listed fields; no other
\* field contributes.
C8_FreeText ==
  filters.q # <<>> =>
    LET matches(c) == Occurs(toLowerCase(filters.q), toLowerCase(searchText(c)))
    IN /\ \A r \in Elems(filtered) : matches(Obj(r))
       /\ filters = Put(defaultCoopFilters, "q", filters.q) =>
            \A r \in Elems(coops) :
              (InDefaultRanges(Obj(r)) /\ matches(Obj(r))) => InList(r, filtered)

\* "SEAWEED" finds the record whose sector is "Seaweed" in the shipped catalog
C8_Witness ==
  /\ filters = Put(defaultCoopFilters, "q", <<"S","E","A","W","E","E","D">>)
  /\ coops = COOPS
  /\ co1.sector = <<"S","e","a","w","e","e","d">>
  /\ filtered = <<"co1">>

\* C9: a selector that is present but unset (empty string or undefined), and an
\* empty query, impose no constraint: the result is the result of the same
\* specification without that property.
C9_UnsetMatchesAll ==
  \A k \in (SelectorsOf(engine) \cup {"q"}) \cap DOMAIN filters :
    ~IsSet(filters, k) => filtered = Apply(engine, coops, Remove(filters, k))

\* the sector selector was cleared to the empty string and records are kept
C9_Witness ==
  /\ "sector" \in DOMAIN filters
  /\ filters.sector = <<>>
  /\ Active(filters) = 2
  /\ filtered # <<>>
  /\ Len(filtered) < Len(coops)

C10_FocusClearsSelection ==
  [][ /\ \A s \in Elems(SECTORS) :
           (selectedId # Undefined /\ handleSectorFromGraph(s))
             => (selectedId' = Undefined /\ Get(filters', "sector") = s)
      /\ \A p \in Elems(FDI_PRIORITIES) :
           (selectedId # Undefined /\ handleFdiFromGraph(p))
             => (selectedId' = Undefined /\ Get(filters', "fdiPriority") = p)
    ]_vars

\* every property name of CoopFilters
Fields == Elems(FieldOrder)

\* f and g agree on every property but k
SameBut(f, g, k) == \A x \in Fields \ {k} : Get(f, x) = Get(g, x)

\* C11: a sector hub (FDI hub) activation sets sector (fdiPriority) to the hub's
\* value and leaves the query, every other selector and both ranges as they were
C11_FocusFrame ==
  [][ /\ \A s \in Elems(SECTORS) :
           handleSectorFromGraph(s)
             => (Get(filters', "sector") = s /\ SameBut(filters', filters, "sector"))
      /\ \A p \in Elems(FDI_PRIORITIES) :
           handleFdiFromGraph(p)
             => (Get(filters', "fdiPriority") = p /\ SameBut(filters', filters, "fdiPriority"))
    ]_vars

\* a focus on the hub "Sector: Cacao", which no option of the panel sets, next
\* to an edited capacity bound
C11_Witness ==
  /\ Get(filters, "sector") = SECTORS[4]
  /\ filters.minCapacity = 13
  /\ filtered # <<>>

Ranges == {"minMembers", "maxMembers", "minCapacity", "maxCapacity"}

\* C12 as stated: "Clear focus" / "Clear filters" unsets every single-choice
\* selector and leaves the query and the four range bounds as they were
C12_AsStated ==
  [][ (ClearFocus \/ ClearFilters)
        => /\ \A k \in Selectors : ~Truthy(Get(filters', k))
           /\ \A k \in Ranges \cup {"q"} : filters'[k] = filters[k]
    ]_vars

\* C12: "Clear focus" unsets sector and fdiPriority and leaves every other
\* property as it was; "Clear filters" unsets every single-choice selector,
\* keeps the query and puts the four range bounds back to their defaults
C12_ClearFocus ==
  [][ /\ ClearFocus
           => /\ Get(filters', "sector") = Undefined
              /\ Get(filters', "fdiPriority") = Undefined
              /\ \A k \in Fields \ {"sector", "fdiPriority"} :
                   Get(filters', k) = Get(filters, k)
      /\ ClearFilters
           => /\ \A k \in Selectors : Get(filters', k) = Undefined
              /\ filters'.q = filters.q
              /\ \A k \in Ranges : filters'[k] = defaultCoopFilters[k]
    ]_vars

\* after "Clear focus": sector and fdiPriority are own properties holding
\* undefined, and a selector picked in the panel is still set
C12_Witness ==
  /\ app \in {"App.tsx#1", "part_004"}
  /\ {"sector", "fdiPriority"} \subseteq DOMAIN filters
  /\ filters.sector = Undefined /\ filters.fdiPriority = Undefined
  /\ "buyer" \notin DOMAIN filters
  /\ \E k \in Selectors : Truthy(Get(filters, k))

\* f has the value of a fresh defaultCoopFilters(), a property that holds
\* undefined counting as an absent one
DeepEqualDefaults(f) == \A k \in Fields : Get(f, k) = Get(defaultCoopFilters, k)

\* C13: the Reset button of the FiltersPanel leaves a Filter Specification
\* deep-equal to defaultCoopFilters() and no selection
C13_ResetRestoresDefaults ==
  [][ PanelReset => (DeepEqualDefaults(filters') /\ selectedId' = Undefined) ]_vars

\* C14: select(id) leads to Viewing(id); closing the details or a category focus
\* leads to Idle; no other event changes the selection
C14_SelectionMachine ==
  [][ /\ handleCoopSelect
           => \E i \in 1..Len(filtered) : selectedId' = Obj(filtered[i]).id
      /\ (onClose \/ SectorHubClick \/ FdiHubClick) => selectedId' = Undefined
      /\ (PanelQuery \/ PanelSelect \/ PanelCapacity \/ PanelReset \/ ClearFocus
            \/ ClearFilters \/ onResetAll \/ onLocationSelect)
           => selectedId' = selectedId
    ]_vars

(***************************************************************************)
(* Properties of the Snapshot aggregates                                   *)
(***************************************************************************)
\* the sum of field over the records at the positions S of list
RECURSIVE SumAt(_, _, _)
SumAt(S, list, field) ==
  IF S = {} THEN 0
  ELSE LET i == CHOOSE x \in S : \A y \in S : x >= y
       IN Obj(list[i])[field] + SumAt(S \ {i}, list, field)

\* the positions of list that hold the first record of their buyer
FirstOfBuyer(list) ==
  {i \in 1..Len(list) : \A j \in 1..(i - 1) : Obj(list[j]).buyer # Obj(list[i]).buyer}

\* C15: the count is the length of the filtered list, total members and total
\* capacity are the sums over it, the buyer count is the number of distinct
\* buyers in it; all four are 0 for the empty list
C15_Aggregates ==
  /\ coopCount(filtered) = Cardinality(DOMAIN filtered)
  /\ totalMembers(filtered) = SumAt(DOMAIN filtered, filtered, "members")
  /\ totalCapacity(filtered) = SumAt(DOMAIN filtered, filtered, "capacity")
  /\ uniqueBuyersCount(filtered) = Cardinality(FirstOfBuyer(filtered))
  /\ filtered = <<>>
       => /\ coopCount(filtered) = 0 /\ totalMembers(filtered) = 0
          /\ totalCapacity(filtered) = 0 /\ uniqueBuyersCount(filtered) = 0

\* a filtered list left by an edited range in which two records share a buyer
C15_Witness ==
  /\ filters # defaultCoopFilters
  /\ Len(filtered) >= 2
  /\ uniqueBuyersCount(filtered) < Len(filtered)
  /\ totalMembers(filtered) = 1060

(***************************************************************************)
(* Properties of the derived data                                          *)
(***************************************************************************)
\* C16: the list handed to the Snapshot, the charts, the table, the graph and
\* exportCSV is filterCoops(base catalog, current Filter Specification)
C16_ConsumersReadFiltered == filtered = filterCoops(BaseOf(app), filters)

\* two edits after one another, the second of which changed the list again:
\* a focus on the Cacao hub under an edited capacity bound, or a panel edit under
\* a graph focus
C16_Witness ==
  /\ Active(filters) = 2
  /\ filtered # <<>>
  /\ filtered # BaseOf(app)
  /\ \E k \in DOMAIN filters :
       /\ ~AtDefault(filters, k)
       /\ filtered # filterCoops(BaseOf(app), Put(filters, k, Get(defaultCoopFilters, k)))

(***************************************************************************)
(* Properties of exportCSV                                                 *)
(***************************************************************************)
\* String.prototype.split on a one-character separator
split(s, c) ==
  LET P == {i \in 1..Len(s) : s[i] = c}
      n == Cardinality(P)
      cut(k) == IF k = 0 THEN 0
                ELSE IF k = n + 1 THEN Len(s) + 1
                ELSE CHOOSE i \in P : Cardinality({j \in P : j < i}) = k - 1
  IN [k \in 1..(n + 1) |-> SubSeq(s, cut(k - 1) + 1, cut(k) - 1)]

\* the number a string of decimal digits writes
RECURSIVE Number(_)
Number(s) ==
  LET val(d) == CHOOSE v \in 0..9 : <<"0","1","2","3","4","5","6","7","8","9">>[v + 1] = d
  IN IF Len(s) = 0 THEN 0 ELSE 10 * Number(SubSeq(s, 1, Len(s) - 1)) + val(s[Len(s)])

\* the header line of the export format
HeaderLine ==
  << "C","o","o","p","e","r","a","t","i","v","e"," ","N","a","m","e",",",
     "O","f","f","i","c","i","a","l"," ","N","a","m","e",",","D","i","s",
     "t","r","i","c","t",",","G","P","S",",","S","e","c","t","o","r",",",
     "V","a","l","u","e"," ","C","h","a","i","n",",","L","i","n","k","e",
     "d"," ","B","u","y","e","r",",","M","e","m","b","e","r","s","h","i",
     "p"," ","S","i","z","e",",","P","r","o","d","u","c","t","i","o","n",
     " ","C","a","p","a","c","i","t","y",",","C","a","p","a","c","i","t",
     "y"," ","U","n","i","t",",","P","r","o","d","u","c","t"," ","F","o",
     "c","u","s",",","C","e","r","t","i","f","i","c","a","t","i","o","n",
     "s",",","E","x","p","o","r","t"," ","H","i","s","t","o","r","y",",",
     "F","D","I"," ","P","r","i","o","r","i","t","y",",","E","S","G","/",
     "S","D","G",",","P","a","r","t","n","e","r","s",",","C","o","n","t",
     "a","c","t" >>

\* the record field under each header column
Columns ==
  << "cooperativeName", "officialName", "district", "gps", "sector", "valueChain",
     "buyer", "members", "capacity", "capacityUnit", "product", "certifications",
     "exportHistory", "fdiPriority", "esg", "partners", "contact" >>
NumberColumns == {"members", "capacity"}
ListColumns == {"certifications", "exportHistory", "esg", "partners"}

Clean(s) == \A i \in 1..Len(s) : s[i] \notin {",", "\n"}

\* no field of r holds a comma or a line break
CommaFree(r) ==
  \A c \in 1..Len(Columns) :
    LET k == Columns[c]
    IN IF k \in NumberColumns THEN TRUE
       ELSE IF k \in ListColumns THEN \A i \in 1..Len(r[k]) : Clean(r[k][i])
       ELSE Clean(r[k])

\* the cell written for field k of r
CellShows(cell, r, k) ==
  IF k \in NumberColumns THEN cell # <<>> /\ Number(cell) = r[k]
  ELSE IF k \in ListColumns
    THEN IF r[k] = <<>> THEN cell = <<>> ELSE split(cell, "|") = r[k]
  ELSE cell = r[k]

\* C17: for n records without embedded commas or line breaks the text has n + 1
\* lines, the header line and one row per record in input order; a row has its
\* fields in header order, a list-valued field being its elements joined by "|"
C17_CsvShape ==
  (csv # <<>> /\ \A i \in 1..Len(filtered) : CommaFree(Obj(filtered[i])))
    => LET out == split(csv, "\n")
       IN /\ Len(out) = Len(filtered) + 1
          /\ out[1] = HeaderLine
          /\ \A i \in 1..Len(filtered) :
               LET cells == split(out[i + 1], ",")
               IN /\ Len(cells) = Len(Columns)
                  /\ \A c \in 1..Len(Columns) :
                       CellShows(cells[c], Obj(filtered[i]), Columns[c])

\* two records without embedded commas were exported: 3 lines, and a list field
\* of two elements among them
C17_Witness ==
  /\ csv # <<>>
  /\ Len(filtered) = 2
  /\ \A i \in 1..Len(filtered) : CommaFree(Obj(filtered[i]))
  /\ \E i \in 1..Len(filtered) : Len(Obj(filtered[i]).certifications) = 2
  /\ Len(split(csv, "\n")) = 3

\* C18: every row written for a record of COOPS has, split on ",", as many
\* fields as the header, each under its column
C18_ColumnAlignment ==
  csv # <<>>
    => LET out == split(csv, "\n")
       IN \A i \in 1..Len(filtered) :
            filtered[i] \in Elems(COOPS)
              => LET cells == split(out[i + 1], ",")
                 IN /\ Len(cells) = Len(split(out[1], ","))
                    /\ Len(cells) = 17
                    /\ \A c \in 1..Len(Columns) :
                         CellShows(cells[c], Obj(filtered[i]), Columns[c])

(***************************************************************************)
(* Properties of the buyer-country selector                                *)
(***************************************************************************)
\* const BUYER_COUNTRY: Record<string, string>, as [buyer, country] entries
BUYER_COUNTRY ==
  << << <<"B","e","l","i","z","e"," ","S","e","a"," ","C","o",".">>,
        <<"B","e","l","i","z","e">> >>,
     << <<"B","l","u","e"," ","F","o","o","d","s"," ","L","t","d",".">>,
        <<"M","e","x","i","c","o">> >>,
     << <<"C","h","o","c","o","B","e","l"," ","E","x","p","o","r","t","e","r","s">>,
        <<"B","e","l","i","z","e">> >>,
     << <<"S","w","e","e","t","B","e","l"," ","I","m","p","o","r","t","s">>,
        <<"B","e","l","i","z","e">> >>,
     << <<"G","l","o","b","a","l"," ","T","r","a","v","e","l"," ","P","a","r","t","n","e","r","s">>,
        <<"U","S","A">> >>,
     << <<"B","e","l","S","e","a"," ","E","x","p","o","r","t">>,
        <<"B","e","l","i","z","e">> >>,
     << <<"M","a","r","S","e","a"," ","I","n","t","l">>,
        <<"U","S","A">> >>,
     << <<"G","r","e","e","n"," ","J","o","u","r","n","e","y","s">>,
        <<"B","e","l","i","z","e">> >>,
     << <<"B","l","u","e","W","a","v","e"," ","C","a","p","i","t","a","l">>,
        <<"U","S","A">> >>,
     << <<"C","a","r","i","b","E","c","o"," ","P","a","r","t","n","e","r","s">>,
        <<"J","a","m","a","i","c","a">> >> >>

\* BUYER_COUNTRY[buyer]: undefined for a buyer without an entry
lookupCountry(buyer) ==
  IF \E i \in 1..Len(BUYER_COUNTRY) : BUYER_COUNTRY[i][1] = buyer
    THEN BUYER_COUNTRY[CHOOSE i \in 1..Len(BUYER_COUNTRY) : BUYER_COUNTRY[i][1] = buyer][2]
    ELSE Undefined

\* C19: with buyerCountry set, a record is kept iff it passes every other
\* predicate and the country looked up for its buyer equals the selector; a
\* record whose buyer maps to the selected country is kept
C19_BuyerCountryLookup ==
  (engine = "part_000" /\ IsSet(filters, "buyerCountry"))
    => \A i \in 1..Len(coops) :
         InList(coops[i], filtered)
           <=> /\ keep(Obj(coops[i]), filters)
               /\ lookupCountry(Obj(coops[i]).buyer) = Get(filters, "buyerCountry")

(***************************************************************************)
(* Properties of the FiltersPanel                                          *)
(***************************************************************************)
\* the fields of the Filter Specification of src/data/coops.ts
PanelFields == {"q"} \cup Selectors \cup Ranges

\* an edit through an input of the FiltersPanel
PanelEdit == PanelQuery \/ PanelSelect \/ PanelCapacity

\* C20: every field of the Filter Specification can be set through the
\* FiltersPanel: from the defaults, for each field there is an edit of the panel
\* after which that field differs from its default
C20_PanelSurface ==
  filters = defaultCoopFilters
    => \A k \in PanelFields :
         ENABLED (PanelEdit /\ Get(filters', k) # Get(defaultCoopFilters, k))

(***************************************************************************)
(* Properties of the selector vocabulary                                   *)
(***************************************************************************)
\* the distinct values of the field behind selector k among the records of list
Present(k, list) ==
  IF k \in ListSelectors
    THEN UNION { Elems(Obj(r)[ListField(k)]) : r \in Elems(list) }
    ELSE { Obj(r)[k] : r \in Elems(list) }

\* C21: the choices of each select of the FiltersPanel are the distinct values
\* present for its field in the base catalog, and every choice, applied alone to
\* the default specification, leaves a non-empty list
C21_DerivedVocabulary ==
  \A k \in Selectors :
    /\ Options(k) = Present(k, BaseOf(app))
    /\ \A v \in Options(k) :
         filterCoops(BaseOf(app), Put(defaultCoopFilters, k, v)) # <<>>

(***************************************************************************)
(* Properties of the updates of the Filter Specification                   *)
(***************************************************************************)
\* a category click of the graph
GraphFocus == SectorHubClick \/ FdiHubClick

\* C22: a panel edit or a graph focus leaves one complete Filter Specification
\* that differs from the one before it in the edited field only, in whatever
\* order edits and focuses follow one another; a panel edit after a focus keeps
\* the focused selector
C22_NoLostUpdate ==
  [][ (PanelEdit \/ GraphFocus)
        => /\ DOMAIN defaultCoopFilters \subseteq DOMAIN filters'
           /\ \A k \in PanelFields :
                Get(filters', k) # Get(filters, k) => SameBut(filters', filters, k)
           /\ PanelEdit => \E k \in PanelFields : Get(filters', k) # Get(filters, k)
           /\ GraphFocus => \E k \in {"sector", "fdiPriority"} :
                              Truthy(Get(filters', k)) /\ SameBut(filters', filters, k)
    ]_vars

\* a query typed into the panel after a focus on the hub "Sector: Cacao": no
\* Cacao record matches it, so the focus came first, and it is still set
C22_Witness ==
  /\ Get(filters, "sector") = SECTORS[4]
  /\ filters.q = <<"S","E","A">>
  /\ filtered = <<>>

GraphApps == {"App.tsx#1", "part_004"}

\* lastFocus?.type, null when lastFocus is null or { type: null }
focusType == lastFocus.type

\* const showReset = !!lastFocus?.type : the Reset button is rendered
showReset == focusType # "null"

\* onCoopSelect(id) of either composition: setSelectedId(id)
onCoopSelect(id) ==
  /\ selectedId' = id
  /\ UNCHANGED <<coops, filters, panelFilters, filtered, showSnapshot, app, engine, csv, label>>

\* the BUYER_COUNTRY of the first EcosystemGraph
BUYER_COUNTRY_1 ==
  << << <<"B","e","l","i","z","e"," ","S","e","a"," ","C","o",".">>,
        <<"B","e","l","i","z","e">> >>,
     << <<"B","l","u","e"," ","F","o","o","d","s"," ","L","t","d",".">>,
        <<"T","r","i","n","i","d","a","d"," ","&"," ","T","o","b","a","g","o">> >>,
     << <<"C","h","o","c","o","B","e","l"," ","E","x","p","o","r","t","e","r","s">>,
        <<"B","e","l","i","z","e">> >>,
     << <<"S","w","e","e","t","B","e","l"," ","I","m","p","o","r","t","s">>,
        <<"B","e","l","i","z","e">> >>,
     << <<"B","e","l","S","e","a"," ","E","x","p","o","r","t">>,
        <<"B","e","l","i","z","e">> >>,
     << <<"M","a","r","S","e","a"," ","I","n","t","l">>,
        <<"M","e","x","i","c","o">> >>,
     << <<"G","l","o","b","a","l"," ","T","r","a","v","e","l"," ","P","a","r","t","n","e","r","s">>,
        <<"U","n","i","t","e","d"," ","S","t","a","t","e","s">> >>,
     << <<"C","a","r","i","b","B","l","u","e"," ","V","e","n","t","u","r","e","s">>,
        <<"B","a","r","b","a","d","o","s">> >>,
     << <<"A","t","l","a","n","t","i","c"," ","A","q","u","a"," ","P","a","r","t","n","e","r","s">>,
        <<"C","o","s","t","a"," ","R","i","c","a">> >> >>

\* BUYER_COUNTRY[b] || "Belize" of the first EcosystemGraph
countryOf(b) ==
  IF \E i \in 1..Len(BUYER_COUNTRY_1) : BUYER_COUNTRY_1[i][1] = b
    THEN BUYER_COUNTRY_1[CHOOSE i \in 1..Len(BUYER_COUNTRY_1) : BUYER_COUNTRY_1[i][1] = b][2]
    ELSE <<"B","e","l","i","z","e">>

\* handleNodeClick, a coop node: onCoopSelect(n.id); setLastFocus({ type, value })
ClickCoopNode ==
  \E i \in 1..Len(filtered) :
    /\ i <= MaxRow
    /\ onCoopSelect(Obj(filtered[i]).id)
    /\ lastFocus' = [type |-> "coop", value |-> Obj(filtered[i]).id]

\* handleNodeClick, a sector hub: onSectorSelect(s); setLastFocus({ type, value: s })
ClickSectorHub ==
  \E n \in hubsSector(filtered) :
    LET s == replacePrefix(n, <<"S","e","c","t","o","r",":">>)
    IN /\ handleSectorFromGraph(s)
       /\ lastFocus' = [type |-> "hub-sector", value |-> s]

\* handleNodeClick, an FDI hub: onFdiSelect(p); setLastFocus({ type, value: p })
ClickFdiHub ==
  \E n \in hubsFdi(filtered) :
    LET p == replacePrefix(n, <<"F","D","I",":">>)
    IN /\ handleFdiFromGraph(p)
       /\ lastFocus' = [type |-> "hub-fdi", value |-> p]

\* handleNodeClick, a buyer node, a country hub or a district hub: the optional
\* onBuyerSelect / onCountrySelect are not passed by either composition, so the
\* click only records the focus
ClickOtherNode ==
  /\ \E i \in 1..Len(filtered) :
       lastFocus' \in { [type |-> "buyer", value |-> Obj(filtered[i]).buyer],
                        [type |-> "hub-country", value |-> countryOf(Obj(filtered[i]).buyer)],
                        [type |-> "hub-district", value |-> Obj(filtered[i]).district] }
  /\ UNCHANGED <<coops, filters, panelFilters, filtered, selectedId, showSnapshot, app, engine, csv, label>>

\* the graph's Reset button, rendered when showReset:
\*   if (lastFocus?.type === "hub-sector") onSectorSelect("");
\*   if (lastFocus?.type === "hub-fdi") onFdiSelect("");
\*   setLastFocus({ type: null });
resetFocus ==
  /\ showReset
  /\ CASE focusType = "hub-sector" -> focusFromGraph("sector", <<>>)
       [] focusType = "hub-fdi" -> focusFromGraph("fdiPriority", <<>>)
       [] OTHER -> UNCHANGED <<coops, filters, panelFilters, filtered, selectedId,
                               showSnapshot, app, engine, csv, label>>
  /\ lastFocus' = NoFocus

InitGraph ==
  /\ app \in GraphApps
  /\ engine = "coops.ts"
  /\ coops = BaseOf(app)
  /\ filters = defaultCoopFilters
  /\ panelFilters = filters
  /\ filtered = filterCoops(coops, filters)
  /\ selectedId = Undefined
  /\ showSnapshot = FALSE
  /\ csv = <<>>
  /\ lastFocus = NoFocus
  /\ label = NoLabel

NextGraph ==
  \/ ClickCoopNode
  \/ ClickSectorHub
  \/ ClickFdiHub
  \/ ClickOtherNode
  \/ resetFocus

SpecGraph == InitGraph /\ [][NextGraph]_vars

(***************************************************************************)
(* Properties of the graph's Reset                                         *)
(***************************************************************************)
\* C25: after the graph's Reset neither the sector nor the fdiPriority selector
\* is active, and the Reset button is shown while a sector or FDI focus set
\* through the graph is active
C25_ResetClearsFocus ==
  /\ [](( Truthy(Get(filters, "sector")) \/ Truthy(Get(filters, "fdiPriority")) ) => showReset)
  /\ [][ resetFocus => /\ ~Truthy(Get(filters', "sector"))
                       /\ ~Truthy(Get(filters', "fdiPriority")) ]_vars

(***************************************************************************)
(* Properties of the selection of part_004                                 *)
(***************************************************************************)
\* C26: in part_004, whenever selectedId is set, the selected record is one of
\* the records of the current filtered list
C26_NoStaleDetails ==
  (app = "part_004" /\ selectedId # Undefined)
    => \E i \in 1..Len(filtered) : Obj(filtered[i]).id = selectedId

\* a record selected under a graph focus, still selected after "Clear focus"
\* widened the list around it
C26_Witness ==
  /\ app = "part_004"
  /\ selectedId # Undefined
  /\ "sector" \in DOMAIN filters
  /\ ~Truthy(Get(filters, "sector"))
  /\ filtered # <<>>
  /\ selectedId # Obj(filtered[1]).id

(***************************************************************************)
(* Properties of the hub focus                                             *)
(***************************************************************************)
\* the records of l whose field k equals v, in the order of l
Restrict(l, k, v) == SelectSeq(l, LAMBDA r : Obj(r)[k] = v)

\* C27: the value a click on a sector (FDI) hub of the graph of the filtered
\* list emits is the sector (fdiPriority) of the records the hub was built
\* from, and the focus leaves exactly the records of the previous filtered
\* list with that value, at least one
C27_HubFocusNarrows ==
  [][ /\ \A n \in hubsSector(filtered) :
           LET s == replacePrefix(n, <<"S","e","c","t","o","r",":">>)
           IN /\ n = <<"S","e","c","t","o","r",":"," ">> \o s
              /\ Restrict(filtered, "sector", s) # <<>>
              /\ focusFromGraph("sector", s)
                   => filtered' = Restrict(filtered, "sector", s)
      /\ \A n \in hubsFdi(filtered) :
           LET p == replacePrefix(n, <<"F","D","I",":">>)
           IN /\ n = <<"F","D","I",":"," ">> \o p
              /\ Restrict(filtered, "fdiPriority", p) # <<>>
              /\ focusFromGraph("fdiPriority", p)
                   => filtered' = Restrict(filtered, "fdiPriority", p)
    ]_vars

\* a sector focus and an FDI focus, one on top of the other, in the composition
\* whose focus opens the Snapshot
C27_Witness ==
  /\ app = "App.tsx#1"
  /\ showSnapshot
  /\ Truthy(Get(filters, "sector"))
  /\ Truthy(Get(filters, "fdiPriority"))
  /\ filtered # <<>>
  /\ Len(filtered) < Len(coops)

(***************************************************************************)
(* buildGraph (src/components/EcosystemGraph.tsx, three versions, and      *)
(* part_003)                                                               *)
(***************************************************************************)
GraphVariants == {"EcosystemGraph.tsx#1", "EcosystemGraph.tsx#2", "EcosystemGraph.tsx#3", "part_003"}

\* an Array.from(new Set(...)) that keeps every element
uniqKeepingAll(s) == s

\* Array.from(new Set(s)): the elements of s, each once, in order of first occurrence
RECURSIVE uniq(_)
uniq(s) ==
  IF s = <<>> THEN <<>>
  ELSE LET r == uniq(SubSeq(s, 1, Len(s) - 1))
       IN IF arrIncludes(r, s[Len(s)]) THEN r ELSE Append(r, s[Len(s)])

\* coops.map(c => c[k])
fieldOf(l, k) == [i \in 1..Len(l) |-> Get(Obj(l[i]), k)]

\* one array out of an array of arrays (the pushes of a forEach, the spreads)
RECURSIVE flat(_)
flat(ss) == IF ss = <<>> THEN <<>> ELSE ss[1] \o flat(Tail(ss))

\* the UTF-16 code unit of the characters that occur in country names
charCode(ch) ==
  IF \E i \in 1..26 : UPPER[i] = ch THEN 64 + (CHOOSE i \in 1..26 : UPPER[i] = ch)
  ELSE IF \E i \in 1..26 : LOWER[i] = ch THEN 96 + (CHOOSE i \in 1..26 : LOWER[i] = ch)
  ELSE IF ch = " " THEN 32
  ELSE IF ch = "&" THEN 38
  ELSE 46

\* a < b in the order of Array.prototype.sort() without a comparator
RECURSIVE before(_, _)
before(a, b) ==
  IF b = <<>> THEN FALSE
  ELSE IF a = <<>> THEN TRUE
  ELSE IF a[1] # b[1] THEN charCode(a[1]) < charCode(b[1])
  ELSE before(Tail(a), Tail(b))

\* Array.prototype.sort() on an array of distinct strings
RECURSIVE sort(_)
sort(s) ==
  IF s = <<>> THEN <<>>
  ELSE LET m == CHOOSE i \in 1..Len(s) : \A j \in 1..Len(s) : j # i => before(s[i], s[j])
       IN <<s[m]>> \o sort(SubSeq(s, 1, m - 1) \o SubSeq(s, m + 1, Len(s)))

\* String.prototype.trim
RECURSIVE trimEnd(_)
trimEnd(s) == IF s # <<>> /\ s[Len(s)] = " " THEN trimEnd(SubSeq(s, 1, Len(s) - 1)) ELSE s
trim(s) == trimEnd(trimStart(s))

\* getBuyerCountry(buyer) of the second EcosystemGraph
getBuyerCountry(buyer) ==
  IF lookupCountry(buyer) = Undefined THEN <<"B","e","l","i","z","e">> ELSE lookupCountry(buyer)

SectorId(s) == <<"S","e","c","t","o","r",":"," ">> \o s
FdiId(p) == <<"F","D","I",":"," ">> \o p
DistrictId(d) == <<"D","i","s","t","r","i","c","t",":"," ">> \o d
BuyerId(b) == <<"B","u","y","e","r",":"," ">> \o b
CountryId(c) == <<"C","o","u","n","t","r","y",":"," ">> \o c
LocationId(c) == <<"L","o","c","a","t","i","o","n",":"," ">> \o c

\* values.map(v => ({ id: ..., type }))
nodesOf(ids, type) == [i \in 1..Len(ids) |-> [id |-> ids[i], type |-> type]]

hubs(l, k, type) ==
  LET vs == uniq(fieldOf(l, k))
  IN nodesOf([i \in 1..Len(vs) |->
                CASE k = "sector" -> SectorId(vs[i])
                  [] k = "fdiPriority" -> FdiId(vs[i])
                  [] k = "district" -> DistrictId(vs[i])
                  [] k = "buyer" -> BuyerId(vs[i])], type)

coopNodes(l) == nodesOf(fieldOf(l, "id"), "coop")

\* buildGraph of the first EcosystemGraph: country hubs from a Set seeded with "Belize"
buildGraph1(l) ==
  LET buyers == uniq(fieldOf(l, "buyer"))
      countries == uniq(<< <<"B","e","l","i","z","e">> >> \o
                        [i \in 1..Len(buyers) |-> countryOf(buyers[i])])
  IN [ nodes |-> hubs(l, "sector", "hub-sector") \o hubs(l, "fdiPriority", "hub-fdi")
                   \o hubs(l, "district", "hub-district")
                   \o nodesOf([i \in 1..Len(countries) |-> CountryId(countries[i])], "hub-country")
                   \o hubs(l, "buyer", "buyer")
                   \o coopNodes(l),
       links |-> flat([i \in 1..Len(l) |->
                   LET c == Obj(l[i])
                   IN << <<c.id, SectorId(c.sector)>>,
                         <<c.id, FdiId(c.fdiPriority)>>,
                         <<c.id, DistrictId(c.district)>>,
                         <<c.id, BuyerId(c.buyer)>>,
                         <<BuyerId(c.buyer), CountryId(countryOf(c.buyer))>> >>]) ]

\* buildGraph of the second EcosystemGraph: sorted country hubs, one link per buyer
buildGraph2(l) ==
  LET buyers == uniq(fieldOf(l, "buyer"))
      countries == sort(uniq([i \in 1..Len(buyers) |-> getBuyerCountry(buyers[i])]))
  IN [ nodes |-> hubs(l, "district", "hub-district") \o hubs(l, "sector", "hub-sector")
                   \o hubs(l, "fdiPriority", "hub-fdi")
                   \o nodesOf([i \in 1..Len(countries) |-> CountryId(countries[i])], "hub-country")
                   \o hubs(l, "buyer", "buyer")
                   \o coopNodes(l),
       links |-> flat([i \in 1..Len(l) |->
                   LET c == Obj(l[i])
                   IN << <<c.id, DistrictId(c.district)>>,
                         <<c.id, SectorId(c.sector)>>,
                         <<c.id, FdiId(c.fdiPriority)>>,
                         <<c.id, BuyerId(c.buyer)>> >>])
                 \o [i \in 1..Len(buyers) |->
                       <<BuyerId(buyers[i]), CountryId(getBuyerCountry(buyers[i]))>>] ]

\* buildGraph of the third EcosystemGraph: Location hubs for the records that
\* carry a non-blank string buyerCountry, a Location link for a truthy one
buildGraph3(l) ==
  LET buyerCountries ==
        uniq(SelectSeq(fieldOf(l, "buyerCountry"),
                       LAMBDA v : v # Undefined /\ Len(trim(v)) > 0))
  IN [ nodes |-> hubs(l, "sector", "hub-sector") \o hubs(l, "fdiPriority", "hub-fdi")
                   \o hubs(l, "district", "hub-district")
                   \o nodesOf([i \in 1..Len(buyerCountries) |-> LocationId(buyerCountries[i])],
                              "hub-location")
                   \o coopNodes(l),
       links |-> flat([i \in 1..Len(l) |->
                   LET c == Obj(l[i])
                   IN << <<c.id, SectorId(c.sector)>>,
                         <<c.id, FdiId(c.fdiPriority)>>,
                         <<c.id, DistrictId(c.district)>> >>
                      \o (IF Truthy(Get(c, "buyerCountry"))
                            THEN << <<c.id, LocationId(c.buyerCountry)>> >> ELSE <<>>)]) ]

\* buildGraph of part_003: coop and buyer nodes behind one `seen` Set
RECURSIVE buildGraphSeen(_)
buildGraphSeen(l) ==
  IF l = <<>> THEN [nodes |-> <<>>, links |-> <<>>, seen |-> {}]
  ELSE LET g == buildGraphSeen(SubSeq(l, 1, Len(l) - 1))
           c == Obj(l[Len(l)])
           buyerId == <<"b","u","y","e","r",":">> \o c.buyer
           n1 == IF c.id \in g.seen THEN <<>> ELSE << [id |-> c.id, type |-> "coop"] >>
           seen1 == g.seen \cup {c.id}
           n2 == IF buyerId \in seen1 THEN <<>> ELSE << [id |-> buyerId, type |-> "buyer"] >>
       IN [ nodes |-> g.nodes \o n1 \o n2,
            links |-> Append(g.links, <<c.id, buyerId>>),
            seen |-> seen1 \cup {buyerId} ]

buildGraph(variant, l) ==
  CASE variant = "EcosystemGraph.tsx#1" -> buildGraph1(l)
    [] variant = "EcosystemGraph.tsx#2" -> buildGraph2(l)
    [] variant = "EcosystemGraph.tsx#3" -> buildGraph3(l)
    [] variant = "part_003" -> [nodes |-> buildGraphSeen(l).nodes, links |-> buildGraphSeen(l).links]

\* most records of a list handed to buildGraph
MaxGraph == 3
GraphPool == {"co1", "co2", "co5", "cx1", "cz1"}

RECURSIVE GraphLists(_)
GraphLists(n) ==
  IF n = 0 THEN {<<>>}
  ELSE LET shorter == GraphLists(n - 1)
       IN shorter \cup
          UNION { { Append(l, r) :
                      r \in {x \in GraphPool : \A i \in 1..(n - 1) : l[i] # x} } :
                  l \in {s \in shorter : Len(s) = n - 1} }

InitBuild ==
  /\ coops \in GraphLists(MaxGraph)
  /\ engine = "coops.ts"
  /\ filters = defaultCoopFilters
  /\ panelFilters = filters
  /\ filtered = Apply(engine, coops, filters)
  /\ selectedId = Undefined
  /\ showSnapshot = FALSE
  /\ app = "part_004"
  /\ csv = <<>>
  /\ lastFocus = NoFocus
  /\ label = NoLabel

\* the graph components rebuild the graph from `filtered` on every render
SpecBuild == InitBuild /\ [][SetRange]_vars

(***************************************************************************)
(* Properties of buildGraph                                                *)
(***************************************************************************)
\* the number of nodes of g with the given id
NodesWithId(g, id) == Cardinality({i \in 1..Len(g.nodes) : g.nodes[i].id = id})

mapGetOr0(m, name) ==
  IF \E i \in 1..Len(m) : m[i].name = name
    THEN m[CHOOSE i \in 1..Len(m) : m[i].name = name].value
    ELSE 0

\* a map.set that adds an entry even when the key is already there
mapSetAppending(m, name, v) == Append(m, [name |-> name, value |-> v])

\* map.set(name, v): replaces the value of an entry, or adds one at the end
mapSet(m, name, v) ==
  IF \E i \in 1..Len(m) : m[i].name = name
    THEN [i \in 1..Len(m) |-> IF m[i].name = name THEN [name |-> name, value |-> v] ELSE m[i]]
    ELSE Append(m, [name |-> name, value |-> v])

\* coops.forEach((c) => map.set(c[k], (map.get(c[k]) || 0) + 1)) and, with
\* field "capacity", ... + c.capacity; Array.from(map, ...) keeps the entries
RECURSIVE groupBy(_, _, _)
groupBy(l, k, field) ==
  IF l = <<>> THEN <<>>
  ELSE LET m == groupBy(SubSeq(l, 1, Len(l) - 1), k, field)
           c == Obj(l[Len(l)])
       IN mapSet(m, c[k], mapGetOr0(m, c[k]) + (IF field = "count" THEN 1 ELSE c[field]))

bySector(l) == groupBy(l, "sector", "count")
byValueChain(l) == groupBy(l, "valueChain", "count")
capacityByDistrict(l) == groupBy(l, "district", "capacity")

(***************************************************************************)
(* Properties of the ChartsPanel                                           *)
(***************************************************************************)
RECURSIVE SumValues(_)
SumValues(m) == IF m = <<>> THEN 0 ELSE m[1].value + SumValues(Tail(m))

\* the names of m are pairwise distinct and are the values of field k in l
KeysOf(m, l, k) ==
  /\ \A i, j \in 1..Len(m) : m[i].name = m[j].name => i = j
  /\ {m[i].name : i \in 1..Len(m)} = {Obj(r)[k] : r \in Elems(l)}

\* C29: the counts per sector and per value chain each sum to the length of the
\* filtered list, the capacities per district sum to the Snapshot's total
\* capacity, each key is a group once, no count is zero, and every group-by of
\* the empty list is empty
C29_ChartsPartition ==
  /\ SumValues(bySector(filtered)) = Len(filtered)
  /\ SumValues(byValueChain(filtered)) = Len(filtered)
  /\ SumValues(capacityByDistrict(filtered)) = totalCapacity(filtered)
  /\ KeysOf(bySector(filtered), filtered, "sector")
  /\ KeysOf(byValueChain(filtered), filtered, "valueChain")
  /\ KeysOf(capacityByDistrict(filtered), filtered, "district")
  /\ \A i \in 1..Len(bySector(filtered)) :
       bySector(filtered)[i].value =
         Cardinality({j \in 1..Len(filtered) :
                        Obj(filtered[j]).sector = bySector(filtered)[i].name})
  /\ \A i \in 1..Len(bySector(filtered)) : bySector(filtered)[i].value > 0
  /\ \A i \in 1..Len(byValueChain(filtered)) : byValueChain(filtered)[i].value > 0
  /\ filtered = <<>> =>
       /\ bySector(filtered) = <<>>
       /\ byValueChain(filtered) = <<>>
       /\ capacityByDistrict(filtered) = <<>>

\* a list narrowed by the capacity range to two records of one sector
C29_Witness ==
  /\ Len(filtered) = 2
  /\ Len(coops) = 3
  /\ Len(bySector(filtered)) = 1
  /\ bySector(filtered)[1].value = 2
  /\ capacityByDistrict(filtered)[1].value > 0

(***************************************************************************)
(* Label helpers (src/components/EcosystemGraph.tsx, second version)       *)
(***************************************************************************)
\* ctx.measureText(s).width for a font in which every character, the
\* ellipsis included, is em wide: a measure monotone in the length of s
measureText(em, s) == Len(s) * em

\* the one character U+2026 that truncateToWidth appends
Ellipsis == "U+2026"

\* the loop of truncateToWidth
RECURSIVE truncateLoop(_, _, _, _, _, _)
truncateLoop(em, text, maxW, lo, hi, ans) ==
  IF lo <= hi
    THEN LET mid == (lo + hi) \div 2
             t == SubSeq(text, 1, mid) \o <<Ellipsis>>
         IN IF measureText(em, t) <= maxW
              THEN truncateLoop(em, text, maxW, mid + 1, hi, t)
              ELSE truncateLoop(em, text, maxW, lo, mid - 1, ans)
    ELSE ans

\* truncateToWidth(ctx, text, maxW)
truncateToWidth(em, text, maxW) ==
  IF measureText(em, text) <= maxW THEN text
  ELSE truncateLoop(em, text, maxW, 0, Len(text), text)

\* longest text, widest label and widest character of a call
MaxLabel == 6
MaxW == 8
MaxEm == 3

\* the first characters of the name of the first record of the catalog
LabelTexts == { SubSeq(co1.cooperativeName, 1, n) : n \in 0..MaxLabel }

InitLabel ==
  /\ app = "part_004"
  /\ engine = "coops.ts"
  /\ coops = COOPS
  /\ filters = defaultCoopFilters
  /\ panelFilters = filters
  /\ filtered = filterCoops(coops, filters)
  /\ selectedId = Undefined
  /\ showSnapshot = FALSE
  /\ csv = <<>>
  /\ lastFocus = NoFocus
  /\ label = NoLabel

\* drawLabelPill: const shown = truncateToWidth(ctx, text, maxTextW)
drawLabelPill ==
  /\ \E text \in LabelTexts : \E maxW \in 0..MaxW : \E em \in 1..MaxEm :
       label' = [text |-> text, maxW |-> maxW, em |-> em,
                 shown |-> truncateToWidth(em, text, maxW)]
  /\ UNCHANGED <<coops, filters, panelFilters, filtered, selectedId, showSnapshot,
                 app, engine, csv, lastFocus>>

SpecLabel == InitLabel /\ [][drawLabelPill]_vars

(***************************************************************************)
(* Properties of truncateToWidth                                           *)
(***************************************************************************)
\* C30: the result of truncateToWidth is at most maxW wide: the text when it
\* fits, otherwise the longest prefix of the text followed by the ellipsis that
\* fits
C30_TruncateFits ==
  label # NoLabel =>
    /\ measureText(label.em, label.shown) <= label.maxW
    /\ measureText(label.em, label.text) <= label.maxW => label.shown = label.text
    /\ measureText(label.em, label.text) > label.maxW =>
         \E n \in 0..Len(label.text) :
           /\ label.shown = SubSeq(label.text, 1, n) \o <<Ellipsis>>
           /\ \A m \in (n + 1)..Len(label.text) :
                measureText(label.em, SubSeq(label.text, 1, m) \o <<Ellipsis>>) > label.maxW

====
